---- MODULE Spec2Model ----
(***************************************************************************)
(* Yolwise lead scoring: the scoring engine of src/yolwise_scoring_api.py  *)
(* (revision "api") and of src/main.py (revision "main").                  *)
(*                                                                         *)
(* Conventions.  A Python str is a tuple of one-character strings, a       *)
(* character outside ASCII written as its code point "U+XXXX".  A value    *)
(* of a record is tagged with its Python type.  Scores are exact           *)
(* rationals kept as integers: component scores in points, the weighted    *)
(* base score in 1/100 point (Cent), the industry-adjusted and final       *)
(* score in 1/10000 point (Myr), reported scores in 1/10 point,            *)
(* multipliers and weights in hundredths.  Python computes the scores in   *)
(* binary floating point, where a value that is exactly halfway between    *)
(* two tenths is stored just below or just above the tie: round(x, 1) of   *)
(* a tie is a choice between the two neighbours.                           *)
(*                                                                         *)
(* Specifications.  Spec: one call of calculate_score.  SpecAdjust: one    *)
(* call of the adjustment heuristic on a record and on the record with     *)
(* one more positive signal.  SpecMonotone: two records that differ in     *)
(* one size or location input.  SpecIndustry: one call of                  *)
(* _detect_industry.  SpecRepeat: two calls of _detect_industry with       *)
(* calculate_score calls in between.  SpecBatch: one request to            *)
(* score_batch.  SpecThreads: two request threads on the one engine.       *)
(* SpecRequest: one HTTP request to /score_company or /score_batch, from   *)
(* the API-key gate to the response.                                       *)
(***************************************************************************)
EXTENDS Integers, Sequences, FiniteSets, TLC

VARIABLES rev, company_name, company_data, other_data, pc, result, other_result,
          scoring_engine, companies, results, iteration, summary, frames,
          request, response

\* the request and the locals of score_batch
batch_vars == <<companies, results, iteration, summary>>

\* the HTTP request a handler was called for and the response it returns
http_vars == <<request, response>>

vars == <<rev, company_name, company_data, other_data, pc, result, other_result,
          scoring_engine, batch_vars, frames, http_vars>>

-----------------------------------------------------------------------------
(* Python str operations *)

Min(a, b) == IF a <= b THEN a ELSE b

Max(a, b) == IF a >= b THEN a ELSE b

Clamp(x, lo, hi) == Max(lo, Min(hi, x))

DigitChars == <<"0", "1", "2", "3", "4", "5", "6", "7", "8", "9">>

IsDigit(c) == \E i \in 1..10 : DigitChars[i] = c

DigitVal(c) == (CHOOSE i \in 1..10 : DigitChars[i] = c) - 1

UpperChars == <<"A", "B", "C", "D", "E", "F", "G", "H", "I", "J", "K", "L", "M", "N", "O", "P", "Q", "R", "S", "T", "U", "V", "W", "X", "Y", "Z", "U+00C7", "U+015E", "U+011E", "U+00D6", "U+00DC">>

LowerChars == <<"a", "b", "c", "d", "e", "f", "g", "h", "i", "j", "k", "l", "m", "n", "o", "p", "q", "r", "s", "t", "u", "v", "w", "x", "y", "z", "U+00E7", "U+015F", "U+011F", "U+00F6", "U+00FC">>

\* str.lower() of one character; U+0130 lowers to "i" followed by U+0307
LowerChar(c) ==
    IF \E i \in 1..Len(UpperChars) : UpperChars[i] = c
    THEN <<LowerChars[CHOOSE i \in 1..Len(UpperChars) : UpperChars[i] = c]>>
    ELSE IF <<c>> = <<"U+0130">> THEN <<"i", "U+0307">> ELSE <<c>>

\* str.lower(), by halves
RECURSIVE lower(_)
lower(s) ==
    IF Len(s) = 0 THEN <<>>
    ELSE IF Len(s) = 1 THEN LowerChar(s[1])
    ELSE lower(SubSeq(s, 1, Len(s) \div 2)) \o lower(SubSeq(s, (Len(s) \div 2) + 1, Len(s)))

\* Python `k in t` for two strings
Contains(k, t) ==
    \E i \in 1..(Len(t) - Len(k) + 1) : \A j \in 1..Len(k) : t[i + j - 1] = k[j]

\* any(term in text for term in terms)
AnyIn(terms, t) == \E i \in 1..Len(terms) : Contains(terms[i], t)

\* the decimal digits of a natural number
RECURSIVE NatStr(_)
NatStr(n) == IF n < 10 THEN <<DigitChars[n + 1]>> ELSE NatStr(n \div 10) \o <<DigitChars[(n % 10) + 1]>>

\* int(digits) for a run of decimal digits
RECURSIVE DigitsVal(_)
DigitsVal(ds) == IF ds = <<>> THEN 0 ELSE 10 * DigitsVal(SubSeq(ds, 1, Len(ds) - 1)) + DigitVal(ds[Len(ds)])

\* the maximal run of digits of s that starts at position i
RECURSIVE DigitRun(_, _)
DigitRun(s, i) == IF i <= Len(s) /\ IsDigit(s[i]) THEN <<s[i]>> \o DigitRun(s, i + 1) ELSE <<>>

HasDigit(s) == \E i \in 1..Len(s) : IsDigit(s[i])

FirstDigitPos(s) == CHOOSE i \in 1..Len(s) : IsDigit(s[i]) /\ \A j \in 1..(i - 1) : ~IsDigit(s[j])

-----------------------------------------------------------------------------
(* Attribute values: what a JSON-decoded field can hold.  A float is       *)
(* non-negative and kept as whole part n and thousandths f.                *)

Absent == [t |-> "absent", n |-> 0, f |-> 0, s |-> <<>>]

NoneV == [t |-> "none", n |-> 0, f |-> 0, s |-> <<>>]

IntV(n) == [t |-> "int", n |-> n, f |-> 0, s |-> <<>>]

FloatV(w, f) == [t |-> "float", n |-> w, f |-> f, s |-> <<>>]

StrV(s) == [t |-> "str", n |-> 0, f |-> 0, s |-> s]

\* dict.get(key, default) on a record that maps every missing key to Absent
get(data, key, default) == IF data[key].t = "absent" THEN default ELSE data[key]

\* bool(value)
Truthy(v) ==
    CASE v.t = "int" -> v.n # 0
      [] v.t = "float" -> v.n # 0 \/ v.f # 0
      [] v.t = "str" -> v.s # <<>>
      [] OTHER -> FALSE

\* the fraction digits repr() prints for f thousandths
FracStr(f) ==
    IF f % 100 = 0 THEN <<DigitChars[(f \div 100) + 1]>>
    ELSE IF f % 10 = 0 THEN <<DigitChars[(f \div 100) + 1], DigitChars[((f \div 10) % 10) + 1]>>
    ELSE <<DigitChars[(f \div 100) + 1], DigitChars[((f \div 10) % 10) + 1], DigitChars[(f % 10) + 1]>>

\* str(value)
str(v) ==
    CASE v.t = "int" -> IF v.n < 0 THEN <<"-">> \o NatStr(-v.n) ELSE NatStr(v.n)
      [] v.t = "float" -> NatStr(v.n) \o <<".">> \o FracStr(v.f)
      [] v.t = "str" -> v.s
      [] OTHER -> <<"N", "o", "n", "e">>

\* a float result: whole part and thousandths (a negative one has frac 0)
Dec(w, f) == [whole |-> w, frac |-> f]

\* x >= k and x > k for a float x and an integer constant k
DecGE(x, k) == x.whole >= k

DecGT(x, k) == x.whole > k \/ (x.whole = k /\ x.frac > 0)

\* float("0." + digits), to the thousandth
FracVal(ds) ==
    LET d(i) == IF i <= Len(ds) THEN DigitVal(ds[i]) ELSE 0
    IN  100 * d(1) + 10 * d(2) + d(3)

IsSpace(c) == c \in {" ", "\t", "\n"}

\* str.strip()
RECURSIVE strip(_)
strip(s) ==
    IF s = <<>> THEN s
    ELSE IF IsSpace(Head(s)) THEN strip(Tail(s))
    ELSE IF IsSpace(s[Len(s)]) THEN strip(SubSeq(s, 1, Len(s) - 1))
    ELSE s

\* re.findall(r'\d+', text)[0] as an int, 0 when there is no digit
FirstNumber(s) == IF HasDigit(s) THEN DigitsVal(DigitRun(s, FirstDigitPos(s))) ELSE 0

-----------------------------------------------------------------------------
(* The static tables of YolwiseScoring.__init__, in dict iteration order; *)
(* a multiplier and a weight are in hundredths.                            *)

\* self.industry_multipliers, yolwise_scoring_api.py
api_industry_multipliers ==
  <<
    [name |-> "renewables & environment", multiplier |-> 120, confidence |-> "high",
     keywords |-> <<
          <<"r", "e", "n", "e", "w", "a", "b", "l", "e">>,
          <<"e", "n", "v", "i", "r", "o", "n", "m", "e", "n", "t">>,
          <<"s", "o", "l", "a", "r">>,
          <<"w", "i", "n", "d">>,
          <<"g", "r", "e", "e", "n", " ", "e", "n", "e", "r", "g", "y">>,
          <<"s", "u", "s", "t", "a", "i", "n", "a", "b", "i", "l", "i", "t", "y">>>>],
    [name |-> "logistics and supply chain", multiplier |-> 117, confidence |-> "high",
     keywords |-> <<
          <<"l", "o", "g", "i", "s", "t", "i", "c", "s">>,
          <<"s", "u", "p", "p", "l", "y", " ", "c", "h", "a", "i", "n">>,
          <<"t", "r", "a", "n", "s", "p", "o", "r", "t", "a", "t", "i", "o", "n">>,
          <<"s", "h", "i", "p", "p", "i", "n", "g">>,
          <<"d", "i", "s", "t", "r", "i", "b", "u", "t", "i", "o", "n">>,
          <<"f", "r", "e", "i", "g", "h", "t">>>>],
    [name |-> "utilities", multiplier |-> 115, confidence |-> "high",
     keywords |-> <<
          <<"u", "t", "i", "l", "i", "t", "i", "e", "s">>,
          <<"e", "l", "e", "c", "t", "r", "i", "c">>,
          <<"p", "o", "w", "e", "r">>,
          <<"g", "a", "s">>,
          <<"w", "a", "t", "e", "r">>,
          <<"e", "n", "e", "r", "g", "y", " ", "d", "i", "s", "t", "r", "i", "b", "u", "t", "i", "o", "n">>>>],
    [name |-> "food & beverages", multiplier |-> 110, confidence |-> "medium",
     keywords |-> <<
          <<"f", "o", "o", "d">>,
          <<"b", "e", "v", "e", "r", "a", "g", "e">>,
          <<"d", "a", "i", "r", "y">>,
          <<"a", "g", "r", "i", "c", "u", "l", "t", "u", "r", "e">>,
          <<"n", "u", "t", "r", "i", "t", "i", "o", "n">>,
          <<"f", "a", "r", "m", "i", "n", "g">>>>],
    [name |-> "chemicals", multiplier |-> 105, confidence |-> "medium",
     keywords |-> <<
          <<"c", "h", "e", "m", "i", "c", "a", "l">>,
          <<"p", "h", "a", "r", "m", "a", "c", "e", "u", "t", "i", "c", "a", "l">>,
          <<"b", "i", "o", "t", "e", "c", "h">>,
          <<"l", "a", "b", "o", "r", "a", "t", "o", "r", "y">>,
          <<"m", "a", "n", "u", "f", "a", "c", "t", "u", "r", "i", "n", "g", " ", "c", "h", "e", "m", "i", "c", "a", "l">>>>],
    [name |-> "building materials", multiplier |-> 102, confidence |-> "medium",
     keywords |-> <<
          <<"b", "u", "i", "l", "d", "i", "n", "g", " ", "m", "a", "t", "e", "r", "i", "a", "l", "s">>,
          <<"c", "o", "n", "s", "t", "r", "u", "c", "t", "i", "o", "n", " ", "m", "a", "t", "e", "r", "i", "a", "l", "s">>,
          <<"c", "e", "m", "e", "n", "t">>,
          <<"s", "t", "e", "e", "l">>,
          <<"c", "o", "n", "c", "r", "e", "t", "e">>>>],
    [name |-> "mechanical or industrial engineering", multiplier |-> 100, confidence |-> "medium",
     keywords |-> <<
          <<"m", "e", "c", "h", "a", "n", "i", "c", "a", "l">>,
          <<"i", "n", "d", "u", "s", "t", "r", "i", "a", "l", " ", "e", "n", "g", "i", "n", "e", "e", "r", "i", "n", "g">>,
          <<"m", "a", "c", "h", "i", "n", "e", "r", "y">>,
          <<"e", "q", "u", "i", "p", "m", "e", "n", "t">>,
          <<"m", "a", "n", "u", "f", "a", "c", "t", "u", "r", "i", "n", "g">>>>],
    [name |-> "mining & metals", multiplier |-> 98, confidence |-> "medium",
     keywords |-> <<
          <<"m", "i", "n", "i", "n", "g">>,
          <<"m", "e", "t", "a", "l", "s">>,
          <<"m", "e", "t", "a", "l", "l", "u", "r", "g", "y">>,
          <<"e", "x", "t", "r", "a", "c", "t", "i", "o", "n">>,
          <<"o", "r", "e", " ", "p", "r", "o", "c", "e", "s", "s", "i", "n", "g">>>>],
    [name |-> "pharmaceuticals", multiplier |-> 97, confidence |-> "medium",
     keywords |-> <<
          <<"p", "h", "a", "r", "m", "a", "c", "e", "u", "t", "i", "c", "a", "l", "s">>,
          <<"p", "h", "a", "r", "m", "a">>,
          <<"m", "e", "d", "i", "c", "i", "n", "e">>,
          <<"d", "r", "u", "g", "s">>,
          <<"h", "e", "a", "l", "t", "h", "c", "a", "r", "e">>>>],
    [name |-> "retail", multiplier |-> 90, confidence |-> "low",
     keywords |-> <<
          <<"r", "e", "t", "a", "i", "l">>,
          <<"c", "o", "n", "s", "u", "m", "e", "r">>,
          <<"s", "h", "o", "p", "p", "i", "n", "g">>,
          <<"s", "t", "o", "r", "e">>,
          <<"c", "o", "m", "m", "e", "r", "c", "e">>,
          <<"s", "a", "l", "e", "s">>>>],
    [name |-> "construction", multiplier |-> 88, confidence |-> "low",
     keywords |-> <<
          <<"c", "o", "n", "s", "t", "r", "u", "c", "t", "i", "o", "n">>,
          <<"b", "u", "i", "l", "d", "i", "n", "g">>,
          <<"a", "r", "c", "h", "i", "t", "e", "c", "t", "u", "r", "e">>,
          <<"c", "o", "n", "t", "r", "a", "c", "t", "o", "r">>,
          <<"i", "n", "f", "r", "a", "s", "t", "r", "u", "c", "t", "u", "r", "e">>>>],
    [name |-> "automotive", multiplier |-> 85, confidence |-> "low",
     keywords |-> <<
          <<"a", "u", "t", "o", "m", "o", "t", "i", "v", "e">>,
          <<"a", "u", "t", "o", "m", "o", "b", "i", "l", "e">>,
          <<"v", "e", "h", "i", "c", "l", "e">>,
          <<"c", "a", "r">>,
          <<"t", "r", "a", "n", "s", "p", "o", "r", "t", "a", "t", "i", "o", "n", " ", "e", "q", "u", "i", "p", "m", "e", "n", "t">>>>],
    [name |-> "computer software", multiplier |-> 80, confidence |-> "low",
     keywords |-> <<
          <<"c", "o", "m", "p", "u", "t", "e", "r", " ", "s", "o", "f", "t", "w", "a", "r", "e">>,
          <<"t", "e", "c", "h", "n", "o", "l", "o", "g", "y">>,
          <<"s", "o", "f", "t", "w", "a", "r", "e">>,
          <<"i", "t">>,
          <<"d", "i", "g", "i", "t", "a", "l">>,
          <<"p", "r", "o", "g", "r", "a", "m", "m", "i", "n", "g">>>>],
    [name |-> "hospital & health care", multiplier |-> 75, confidence |-> "low",
     keywords |-> <<
          <<"h", "o", "s", "p", "i", "t", "a", "l">>,
          <<"h", "e", "a", "l", "t", "h", " ", "c", "a", "r", "e">>,
          <<"m", "e", "d", "i", "c", "a", "l">>,
          <<"h", "e", "a", "l", "t", "h", "c", "a", "r", "e">>,
          <<"c", "l", "i", "n", "i", "c">>,
          <<"p", "h", "a", "r", "m", "a", "c", "e", "u", "t", "i", "c", "a", "l">>>>],
    [name |-> "transportation/trucking", multiplier |-> 70, confidence |-> "low",
     keywords |-> <<
          <<"t", "r", "a", "n", "s", "p", "o", "r", "t", "a", "t", "i", "o", "n">>,
          <<"t", "r", "u", "c", "k", "i", "n", "g">>,
          <<"f", "r", "e", "i", "g", "h", "t">>,
          <<"d", "e", "l", "i", "v", "e", "r", "y">>,
          <<"s", "h", "i", "p", "p", "i", "n", "g">>>>]
  >>

\* self.city_tiers, yolwise_scoring_api.py
api_city_tiers ==
  [
    tier_1_cities |-> <<<<"i", "s", "t", "a", "n", "b", "u", "l">>, <<"a", "n", "k", "a", "r", "a">>, <<"i", "z", "m", "i", "r">>>>,
    tier_2_cities |-> <<<<"b", "u", "r", "s", "a">>, <<"a", "n", "t", "a", "l", "y", "a">>, <<"g", "a", "z", "i", "a", "n", "t", "e", "p">>, <<"k", "o", "n", "y", "a">>>>,
    industrial_regions |-> <<<<"k", "o", "c", "a", "e", "l", "i">>, <<"t", "e", "k", "i", "r", "d", "a", "g">>, <<"e", "s", "k", "i", "s", "e", "h", "i", "r">>>>,
    other_cities |-> <<>>
  ]

\* self.scoring_weights.values(), yolwise_scoring_api.py
\* self.scoring_weights with industry_b2b_propensity as its first key
api_scoring_weights_reordered == <<25, 35, 20, 10, 10>>

api_scoring_weights == <<35, 25, 20, 10, 10>>

\* the keys of self.scoring_weights, in dict order
scoring_weight_names ==
    <<"company_size_indicator", "industry_b2b_propensity", "financial_capacity",
      "geographic_presence", "growth_digital_indicators">>

\* the keys of the dict _calculate_base_components returns, in dict order
base_component_names ==
    <<"company_size_score", "industry_propensity_score", "financial_capacity_score",
      "geographic_score", "growth_digital_score">>

\* self.industry_multipliers, main.py
main_industry_multipliers ==
  <<
    [name |-> "renewables & environment", multiplier |-> 120, confidence |-> "high",
     keywords |-> <<
          <<"r", "e", "n", "e", "w", "a", "b", "l", "e">>,
          <<"e", "n", "v", "i", "r", "o", "n", "m", "e", "n", "t">>,
          <<"s", "o", "l", "a", "r">>,
          <<"w", "i", "n", "d">>,
          <<"g", "r", "e", "e", "n", " ", "e", "n", "e", "r", "g", "y">>,
          <<"s", "u", "s", "t", "a", "i", "n", "a", "b", "i", "l", "i", "t", "y">>,
          <<"U+00E7", "e", "v", "r", "e">>,
          <<"y", "e", "n", "i", "l", "e", "n", "e", "b", "i", "l", "i", "r">>>>],
    [name |-> "logistics and supply chain", multiplier |-> 117, confidence |-> "high",
     keywords |-> <<
          <<"l", "o", "g", "i", "s", "t", "i", "c", "s">>,
          <<"s", "u", "p", "p", "l", "y", " ", "c", "h", "a", "i", "n">>,
          <<"t", "r", "a", "n", "s", "p", "o", "r", "t", "a", "t", "i", "o", "n">>,
          <<"s", "h", "i", "p", "p", "i", "n", "g">>,
          <<"d", "i", "s", "t", "r", "i", "b", "u", "t", "i", "o", "n">>,
          <<"f", "r", "e", "i", "g", "h", "t">>,
          <<"l", "o", "j", "i", "s", "t", "i", "k">>,
          <<"t", "a", "U+015F", "U+0131", "m", "a", "c", "U+0131", "l", "U+0131", "k">>>>],
    [name |-> "utilities", multiplier |-> 115, confidence |-> "high",
     keywords |-> <<
          <<"u", "t", "i", "l", "i", "t", "i", "e", "s">>,
          <<"e", "l", "e", "c", "t", "r", "i", "c">>,
          <<"p", "o", "w", "e", "r">>,
          <<"g", "a", "s">>,
          <<"w", "a", "t", "e", "r">>,
          <<"e", "n", "e", "r", "g", "y", " ", "d", "i", "s", "t", "r", "i", "b", "u", "t", "i", "o", "n">>,
          <<"e", "l", "e", "k", "t", "r", "i", "k">>,
          <<"e", "n", "e", "r", "j", "i">>>>],
    [name |-> "food & beverages", multiplier |-> 110, confidence |-> "medium",
     keywords |-> <<
          <<"f", "o", "o", "d">>,
          <<"b", "e", "v", "e", "r", "a", "g", "e">>,
          <<"d", "a", "i", "r", "y">>,
          <<"a", "g", "r", "i", "c", "u", "l", "t", "u", "r", "e">>,
          <<"n", "u", "t", "r", "i", "t", "i", "o", "n">>,
          <<"f", "a", "r", "m", "i", "n", "g">>,
          <<"g", "U+0131", "d", "a">>,
          <<"i", "U+00E7", "e", "c", "e", "k">>,
          <<"t", "a", "r", "U+0131", "m">>>>],
    [name |-> "chemicals", multiplier |-> 105, confidence |-> "medium",
     keywords |-> <<
          <<"c", "h", "e", "m", "i", "c", "a", "l">>,
          <<"p", "h", "a", "r", "m", "a", "c", "e", "u", "t", "i", "c", "a", "l">>,
          <<"b", "i", "o", "t", "e", "c", "h">>,
          <<"l", "a", "b", "o", "r", "a", "t", "o", "r", "y">>,
          <<"m", "a", "n", "u", "f", "a", "c", "t", "u", "r", "i", "n", "g", " ", "c", "h", "e", "m", "i", "c", "a", "l">>,
          <<"k", "i", "m", "y", "a">>,
          <<"i", "l", "a", "U+00E7">>>>],
    [name |-> "building materials", multiplier |-> 102, confidence |-> "medium",
     keywords |-> <<
          <<"b", "u", "i", "l", "d", "i", "n", "g", " ", "m", "a", "t", "e", "r", "i", "a", "l", "s">>,
          <<"c", "o", "n", "s", "t", "r", "u", "c", "t", "i", "o", "n", " ", "m", "a", "t", "e", "r", "i", "a", "l", "s">>,
          <<"c", "e", "m", "e", "n", "t">>,
          <<"s", "t", "e", "e", "l">>,
          <<"c", "o", "n", "c", "r", "e", "t", "e">>,
          <<"y", "a", "p", "U+0131", " ", "m", "a", "l", "z", "e", "m", "e", "s", "i">>,
          <<"U+00E7", "i", "m", "e", "n", "t", "o">>>>],
    [name |-> "mechanical or industrial engineering", multiplier |-> 100, confidence |-> "medium",
     keywords |-> <<
          <<"m", "e", "c", "h", "a", "n", "i", "c", "a", "l">>,
          <<"i", "n", "d", "u", "s", "t", "r", "i", "a", "l", " ", "e", "n", "g", "i", "n", "e", "e", "r", "i", "n", "g">>,
          <<"m", "a", "c", "h", "i", "n", "e", "r", "y">>,
          <<"e", "q", "u", "i", "p", "m", "e", "n", "t">>,
          <<"m", "a", "n", "u", "f", "a", "c", "t", "u", "r", "i", "n", "g">>,
          <<"m", "a", "k", "i", "n", "e">>,
          <<"m", "U+00FC", "h", "e", "n", "d", "i", "s", "l", "i", "k">>>>],
    [name |-> "mining & metals", multiplier |-> 98, confidence |-> "medium",
     keywords |-> <<
          <<"m", "i", "n", "i", "n", "g">>,
          <<"m", "e", "t", "a", "l", "s">>,
          <<"m", "e", "t", "a", "l", "l", "u", "r", "g", "y">>,
          <<"e", "x", "t", "r", "a", "c", "t", "i", "o", "n">>,
          <<"o", "r", "e", " ", "p", "r", "o", "c", "e", "s", "s", "i", "n", "g">>,
          <<"m", "a", "d", "e", "n">>,
          <<"m", "e", "t", "a", "l">>>>],
    [name |-> "pharmaceuticals", multiplier |-> 97, confidence |-> "medium",
     keywords |-> <<
          <<"p", "h", "a", "r", "m", "a", "c", "e", "u", "t", "i", "c", "a", "l", "s">>,
          <<"p", "h", "a", "r", "m", "a">>,
          <<"m", "e", "d", "i", "c", "i", "n", "e">>,
          <<"d", "r", "u", "g", "s">>,
          <<"h", "e", "a", "l", "t", "h", "c", "a", "r", "e">>,
          <<"i", "l", "a", "U+00E7">>,
          <<"s", "a", "U+011F", "l", "U+0131", "k">>>>],
    [name |-> "retail", multiplier |-> 90, confidence |-> "low",
     keywords |-> <<
          <<"r", "e", "t", "a", "i", "l">>,
          <<"c", "o", "n", "s", "u", "m", "e", "r">>,
          <<"s", "h", "o", "p", "p", "i", "n", "g">>,
          <<"s", "t", "o", "r", "e">>,
          <<"c", "o", "m", "m", "e", "r", "c", "e">>,
          <<"s", "a", "l", "e", "s">>,
          <<"p", "e", "r", "a", "k", "e", "n", "d", "e">>,
          <<"m", "a", "U+011F", "a", "z", "a">>>>],
    [name |-> "construction", multiplier |-> 88, confidence |-> "low",
     keywords |-> <<
          <<"c", "o", "n", "s", "t", "r", "u", "c", "t", "i", "o", "n">>,
          <<"b", "u", "i", "l", "d", "i", "n", "g">>,
          <<"a", "r", "c", "h", "i", "t", "e", "c", "t", "u", "r", "e">>,
          <<"c", "o", "n", "t", "r", "a", "c", "t", "o", "r">>,
          <<"i", "n", "f", "r", "a", "s", "t", "r", "u", "c", "t", "u", "r", "e">>,
          <<"i", "n", "U+015F", "a", "a", "t">>,
          <<"y", "a", "p", "U+0131">>>>],
    [name |-> "automotive", multiplier |-> 85, confidence |-> "low",
     keywords |-> <<
          <<"a", "u", "t", "o", "m", "o", "t", "i", "v", "e">>,
          <<"a", "u", "t", "o", "m", "o", "b", "i", "l", "e">>,
          <<"v", "e", "h", "i", "c", "l", "e">>,
          <<"c", "a", "r">>,
          <<"t", "r", "a", "n", "s", "p", "o", "r", "t", "a", "t", "i", "o", "n", " ", "e", "q", "u", "i", "p", "m", "e", "n", "t">>,
          <<"o", "t", "o", "m", "o", "t", "i", "v">>,
          <<"a", "r", "a", "U+00E7">>>>],
    [name |-> "computer software", multiplier |-> 80, confidence |-> "low",
     keywords |-> <<
          <<"c", "o", "m", "p", "u", "t", "e", "r", " ", "s", "o", "f", "t", "w", "a", "r", "e">>,
          <<"t", "e", "c", "h", "n", "o", "l", "o", "g", "y">>,
          <<"s", "o", "f", "t", "w", "a", "r", "e">>,
          <<"i", "t">>,
          <<"d", "i", "g", "i", "t", "a", "l">>,
          <<"p", "r", "o", "g", "r", "a", "m", "m", "i", "n", "g">>,
          <<"y", "a", "z", "U+0131", "l", "U+0131", "m">>,
          <<"t", "e", "k", "n", "o", "l", "o", "j", "i">>>>],
    [name |-> "hospital & health care", multiplier |-> 75, confidence |-> "low",
     keywords |-> <<
          <<"h", "o", "s", "p", "i", "t", "a", "l">>,
          <<"h", "e", "a", "l", "t", "h", " ", "c", "a", "r", "e">>,
          <<"m", "e", "d", "i", "c", "a", "l">>,
          <<"h", "e", "a", "l", "t", "h", "c", "a", "r", "e">>,
          <<"c", "l", "i", "n", "i", "c">>,
          <<"p", "h", "a", "r", "m", "a", "c", "e", "u", "t", "i", "c", "a", "l">>,
          <<"h", "a", "s", "t", "a", "n", "e">>,
          <<"s", "a", "U+011F", "l", "U+0131", "k">>>>],
    [name |-> "transportation/trucking", multiplier |-> 70, confidence |-> "low",
     keywords |-> <<
          <<"t", "r", "a", "n", "s", "p", "o", "r", "t", "a", "t", "i", "o", "n">>,
          <<"t", "r", "u", "c", "k", "i", "n", "g">>,
          <<"f", "r", "e", "i", "g", "h", "t">>,
          <<"d", "e", "l", "i", "v", "e", "r", "y">>,
          <<"s", "h", "i", "p", "p", "i", "n", "g">>,
          <<"n", "a", "k", "l", "i", "y", "e">>,
          <<"k", "a", "r", "g", "o">>>>]
  >>

\* self.city_tiers, main.py
main_city_tiers ==
  [
    tier_1_cities |-> <<<<"i", "s", "t", "a", "n", "b", "u", "l">>, <<"a", "n", "k", "a", "r", "a">>, <<"i", "z", "m", "i", "r">>>>,
    tier_2_cities |-> <<<<"b", "u", "r", "s", "a">>, <<"a", "n", "t", "a", "l", "y", "a">>, <<"g", "a", "z", "i", "a", "n", "t", "e", "p">>, <<"k", "o", "n", "y", "a">>, <<"a", "d", "a", "n", "a">>, <<"m", "e", "r", "s", "i", "n">>, <<"d", "i", "y", "a", "r", "b", "a", "k", "U+0131", "r">>, <<"k", "a", "y", "s", "e", "r", "i">>>>,
    tier_3_cities |-> <<<<"e", "s", "k", "i", "U+015F", "e", "h", "i", "r">>, <<"d", "e", "n", "i", "z", "l", "i">>, <<"s", "a", "m", "s", "u", "n">>, <<"m", "a", "l", "a", "t", "y", "a">>, <<"e", "r", "z", "u", "r", "u", "m">>, <<"v", "a", "n">>, <<"b", "a", "t", "m", "a", "n">>, <<"U+015F", "a", "n", "l", "U+0131", "u", "r", "f", "a">>>>,
    industrial_regions |-> <<<<"k", "o", "c", "a", "e", "l", "i">>, <<"t", "e", "k", "i", "r", "d", "a", "U+011F">>, <<"g", "e", "b", "z", "e">>, <<"s", "a", "k", "a", "r", "y", "a">>, <<"U+00E7", "o", "r", "l", "u">>, <<"m", "a", "n", "i", "s", "a">>>>,
    other_cities |-> <<>>
  ]

\* self.scoring_weights.values(), main.py
main_scoring_weights == <<35, 25, 20, 10, 10>>

-----------------------------------------------------------------------------
(* The engine object: the module-level scoring_engine = YolwiseScoring()   *)
(* every request handler calls.  Its attributes are the three tables       *)
(* __init__ assigns; the methods read them through self.                   *)

YolwiseScoring(revision) ==
    IF revision = "api"
    THEN [industry_multipliers |-> api_industry_multipliers,
          city_tiers |-> api_city_tiers,
          scoring_weights |-> api_scoring_weights]
    ELSE [industry_multipliers |-> main_industry_multipliers,
          city_tiers |-> main_city_tiers,
          scoring_weights |-> main_scoring_weights]

\* no HTTP request is being handled and no thread is inside the engine
NoBatch ==
    /\ companies = <<>>
    /\ results = <<>>
    /\ iteration = 0
    /\ summary = [none |-> TRUE]
    /\ frames = <<>>
    /\ request = [none |-> TRUE]
    /\ response = [none |-> TRUE]

-----------------------------------------------------------------------------
(* The engine of src/yolwise_scoring_api.py *)

\* _extract_number(text): the first run of digits of str(text)
api_extract_number(text) == FirstNumber(text)

\* _safe_float(value): a number as it is, the first \d+\.?\d* of a string, else 0
api_safe_float(value) ==
    CASE value.t \in {"int", "float"} -> Dec(value.n, value.f)
      [] value.t = "str" ->
            IF ~HasDigit(value.s) THEN Dec(0, 0)
            ELSE LET p == FirstDigitPos(value.s)
                     run == DigitRun(value.s, p)
                     q == p + Len(run)
                 IN  IF q <= Len(value.s) /\ value.s[q] = "."
                     THEN Dec(DigitsVal(run), FracVal(DigitRun(value.s, q + 1)))
                     ELSE Dec(DigitsVal(run), 0)
      [] OTHER -> Dec(0, 0)

\* the employee brackets tested with `if` in place of `elif`: every bracket reached adds its bonus
api_evaluate_company_size_independent_brackets(data) ==
    LET employees == api_extract_number(str(get(data, "Number of Employees", get(data, "employees_estimate", IntV(0)))))
        revenue == api_safe_float(get(data, "Annual Revenue", get(data, "revenue_estimate", IntV(0))))
        score == 30
            + (IF employees >= 5000 THEN 30 ELSE 0)
            + (IF employees >= 1000 THEN 25 ELSE 0)
            + (IF employees >= 200 THEN 15 ELSE 0)
            + (IF employees >= 50 THEN 10 ELSE 0)
            + (IF employees >= 1 THEN 5 ELSE 0)
            + (IF DecGE(revenue, 500000000) THEN 25
               ELSE IF DecGE(revenue, 100000000) THEN 20
               ELSE IF DecGE(revenue, 50000000) THEN 10
               ELSE IF DecGE(revenue, 10000000) THEN 5
               ELSE IF DecGT(revenue, 0) THEN 3 ELSE 0)
    IN  Min(score, 100)

api_evaluate_company_size(data) ==
    LET employees == api_extract_number(str(get(data, "Number of Employees", get(data, "employees_estimate", IntV(0)))))
        revenue == api_safe_float(get(data, "Annual Revenue", get(data, "revenue_estimate", IntV(0))))
        score == 30
            + (IF employees >= 5000 THEN 30
               ELSE IF employees >= 1000 THEN 25
               ELSE IF employees >= 200 THEN 15
               ELSE IF employees >= 50 THEN 10
               ELSE IF employees >= 1 THEN 5 ELSE 0)
            + (IF DecGE(revenue, 500000000) THEN 25
               ELSE IF DecGE(revenue, 100000000) THEN 20
               ELSE IF DecGE(revenue, 50000000) THEN 10
               ELSE IF DecGE(revenue, 10000000) THEN 5
               ELSE IF DecGT(revenue, 0) THEN 3 ELSE 0)
    IN  Min(score, 100)

api_evaluate_industry_propensity(data) ==
    LET industry == lower(str(get(data, "Industry", StrV(<<>>))))
    IN  IF AnyIn(<<<<"r", "e", "n", "e", "w", "a", "b", "l", "e", "s">>, <<"e", "n", "v", "i", "r", "o", "n", "m", "e", "n", "t">>, <<"l", "o", "g", "i", "s", "t", "i", "c", "s">>, <<"u", "t", "i", "l", "i", "t", "i", "e", "s">>>>, industry) THEN 85
        ELSE IF AnyIn(<<<<"f", "o", "o", "d">>, <<"b", "e", "v", "e", "r", "a", "g", "e">>, <<"c", "h", "e", "m", "i", "c", "a", "l">>, <<"b", "u", "i", "l", "d", "i", "n", "g", " ", "m", "a", "t", "e", "r", "i", "a", "l", "s">>>>, industry) THEN 70
        ELSE IF AnyIn(<<<<"m", "e", "c", "h", "a", "n", "i", "c", "a", "l">>, <<"i", "n", "d", "u", "s", "t", "r", "i", "a", "l">>, <<"e", "n", "g", "i", "n", "e", "e", "r", "i", "n", "g">>, <<"m", "i", "n", "i", "n", "g">>, <<"p", "h", "a", "r", "m", "a", "c", "e", "u", "t", "i", "c", "a", "l">>>>, industry) THEN 50
        ELSE IF AnyIn(<<<<"r", "e", "t", "a", "i", "l">>, <<"c", "o", "n", "s", "t", "r", "u", "c", "t", "i", "o", "n">>, <<"a", "u", "t", "o", "m", "o", "t", "i", "v", "e">>>>, industry) THEN 30
        ELSE IF AnyIn(<<<<"s", "o", "f", "t", "w", "a", "r", "e">>, <<"c", "o", "m", "p", "u", "t", "e", "r">>, <<"h", "o", "s", "p", "i", "t", "a", "l">>, <<"h", "e", "a", "l", "t", "h", "c", "a", "r", "e">>, <<"t", "r", "a", "n", "s", "p", "o", "r", "t", "a", "t", "i", "o", "n">>>>, industry) THEN 15
        ELSE 30

api_current_year == 2025

api_evaluate_financial_capacity(data) ==
    LET revenue == api_safe_float(get(data, "Annual Revenue", IntV(0)))
        founded_year == api_extract_number(str(get(data, "Year Founded", IntV(0))))
        age == api_current_year - founded_year
        score == 40
            + (IF DecGT(revenue, 100000000) THEN 30
               ELSE IF DecGT(revenue, 50000000) THEN 20
               ELSE IF DecGT(revenue, 10000000) THEN 10
               ELSE IF DecGT(revenue, 0) THEN 5 ELSE 0)
            + (IF founded_year > 0
               THEN (IF age >= 20 THEN 20 ELSE IF age >= 10 THEN 15 ELSE IF age >= 5 THEN 10 ELSE 5)
               ELSE 0)
            + (IF Truthy(get(data, "Company Domain Name", NoneV)) THEN 5 ELSE 0)
            + (IF Truthy(get(data, "Street Address", NoneV)) /\ Truthy(get(data, "City", NoneV)) THEN 5 ELSE 0)
    IN  Min(score, 100)

\* `city in list`: equality with one of the list's names
InList(x, list) == \E i \in 1..Len(list) : list[i] = x

\* _evaluate_geographic_presence without the `else: score += 5` of a city in no tier
api_evaluate_geographic_presence_no_other_bonus(data) ==
    LET city == lower(str(get(data, "City", StrV(<<>>))))
        description == lower(str(get(data, "Description", StrV(<<>>))))
        score == 50
            + (IF InList(city, scoring_engine.city_tiers.tier_1_cities) THEN 25
               ELSE IF InList(city, scoring_engine.city_tiers.tier_2_cities) THEN 15
               ELSE IF InList(city, scoring_engine.city_tiers.industrial_regions) THEN 10
               ELSE 0)
            + (IF AnyIn(<<<<"i", "n", "t", "e", "r", "n", "a", "t", "i", "o", "n", "a", "l">>, <<"g", "l", "o", "b", "a", "l">>, <<"e", "x", "p", "o", "r", "t">>, <<"w", "o", "r", "l", "d", "w", "i", "d", "e">>>>, description) THEN 15 ELSE 0)
    IN  Min(score, 100)

api_evaluate_geographic_presence(data) ==
    LET city == lower(str(get(data, "City", StrV(<<>>))))
        description == lower(str(get(data, "Description", StrV(<<>>))))
        score == 50
            + (IF InList(city, scoring_engine.city_tiers.tier_1_cities) THEN 25
               ELSE IF InList(city, scoring_engine.city_tiers.tier_2_cities) THEN 15
               ELSE IF InList(city, scoring_engine.city_tiers.industrial_regions) THEN 10
               ELSE 5)
            + (IF AnyIn(<<<<"i", "n", "t", "e", "r", "n", "a", "t", "i", "o", "n", "a", "l">>, <<"g", "l", "o", "b", "a", "l">>, <<"e", "x", "p", "o", "r", "t">>, <<"w", "o", "r", "l", "d", "w", "i", "d", "e">>>>, description) THEN 15 ELSE 0)
    IN  Min(score, 100)

\* the score of _evaluate_growth_digital_indicators before `min(score, 100)`
api_growth_digital_sum(data) ==
    LET description == lower(str(get(data, "Description", StrV(<<>>))))
        contacts == Cardinality({k \in {"Phone Number", "Company Domain Name"} : Truthy(get(data, k, NoneV))})
    IN  30
        + (IF Truthy(get(data, "Company Domain Name", NoneV)) THEN 20 ELSE 0)
        + (IF Truthy(get(data, "LinkedIn Company Page", NoneV)) THEN 15 ELSE 0)
        + (IF Truthy(get(data, "Facebook Company Page", NoneV)) THEN 10 ELSE 0)
        + (IF AnyIn(<<<<"l", "e", "a", "d", "i", "n", "g">>, <<"g", "r", "o", "w", "i", "n", "g">>, <<"e", "x", "p", "a", "n", "d", "i", "n", "g">>>>, description) THEN 15 ELSE 0)
        + (IF AnyIn(<<<<"i", "n", "n", "o", "v", "a", "t", "i", "o", "n">>, <<"t", "e", "c", "h", "n", "o", "l", "o", "g", "y">>, <<"s", "o", "l", "u", "t", "i", "o", "n", "s">>>>, description) THEN 10 ELSE 0)
        + (IF AnyIn(<<<<"d", "e", "v", "e", "l", "o", "p", "m", "e", "n", "t">>, <<"m", "a", "r", "k", "e", "t", " ", "l", "e", "a", "d", "e", "r">>>>, description) THEN 10 ELSE 0)
        + (IF Len(str(get(data, "Description", StrV(<<>>)))) > 100 THEN 10 ELSE 0)
        + (IF contacts >= 2 THEN 5 ELSE 0)

\* _evaluate_growth_digital_indicators returning `score` instead of `min(score, 100)`
api_evaluate_growth_digital_indicators_unclamped(data) == api_growth_digital_sum(data)

api_evaluate_growth_digital_indicators(data) == Min(api_growth_digital_sum(data), 100)

\* _calculate_base_components: the five scores in the dict's insertion order
api_calculate_base_components(data) ==
    <<api_evaluate_company_size(data),
      api_evaluate_industry_propensity(data),
      api_evaluate_financial_capacity(data),
      api_evaluate_geographic_presence(data),
      api_evaluate_growth_digital_indicators(data)>>

\* sum of f[i] for i in 1..n
RECURSIVE SumTo(_, _)
SumTo(f, n) == IF n = 0 THEN 0 ELSE SumTo(f, n - 1) + f[n]

SumSeq(s) == SumTo(s, Len(s))

\* the text _detect_industry searches: ' '.join of the three lower-cased fields
combined_text(name, industry, description) ==
    lower(name) \o <<" ">> \o lower(str(industry)) \o <<" ">> \o lower(str(description))

\* the weight one matching keyword adds to its profile's score (line 416)
api_keyword_weight(keyword) == Len(keyword)

\* the inner loop of _detect_industry: the score of one profile
api_profile_score(industry_info, text) ==
    SumSeq([i \in 1..Len(industry_info.keywords) |->
              IF Contains(industry_info.keywords[i], text)
              THEN api_keyword_weight(industry_info.keywords[i]) ELSE 0])

\* a profile replacing the best match so far when its score only equals the best
api_replaces_on_tie(score, max_score) == score >= max_score /\ score > 0

\* `if score > max_score`: whether a profile replaces the best match so far
api_replaces(score, max_score) == score > max_score

\* the outer loop from profile i on; best is the index of best_match, 0 for None
RECURSIVE api_best_match(_, _, _, _)
api_best_match(text, i, best, max_score) ==
    IF i > Len(scoring_engine.industry_multipliers) THEN [best |-> best, max_score |-> max_score]
    ELSE LET score == api_profile_score(scoring_engine.industry_multipliers[i], text)
         IN  IF api_replaces(score, max_score)
             THEN api_best_match(text, i + 1, i, score)
             ELSE api_best_match(text, i + 1, best, max_score)

\* _detect_industry returning the best match's tag with the multiplier and the
\* confidence of `industry_info`, the profile the loop ended on
api_detect_industry_loop_variable(name, data) ==
    LET text == combined_text(name, get(data, "Industry", StrV(<<>>)), get(data, "Description", StrV(<<>>)))
        m == api_best_match(text, 1, 0, 0)
        last == Len(scoring_engine.industry_multipliers)
    IN  IF m.best # 0 /\ m.max_score > 0
        THEN [industry |-> scoring_engine.industry_multipliers[m.best].name,
              multiplier |-> scoring_engine.industry_multipliers[last].multiplier,
              confidence |-> scoring_engine.industry_multipliers[last].confidence]
        ELSE [industry |-> "other", multiplier |-> 100, confidence |-> "low"]

\* _detect_industry with best_match starting at the first profile of the table
\* instead of None, and without the `max_score > 0` of its last test
api_detect_industry_without_default(name, data) ==
    LET text == combined_text(name, get(data, "Industry", StrV(<<>>)), get(data, "Description", StrV(<<>>)))
        m == api_best_match(text, 1, 1, 0)
    IN  [industry |-> scoring_engine.industry_multipliers[m.best].name,
         multiplier |-> scoring_engine.industry_multipliers[m.best].multiplier,
         confidence |-> scoring_engine.industry_multipliers[m.best].confidence]

api_detect_industry(name, data) ==
    LET text == combined_text(name, get(data, "Industry", StrV(<<>>)), get(data, "Description", StrV(<<>>)))
        m == api_best_match(text, 1, 0, 0)
    IN  IF m.best # 0 /\ m.max_score > 0
        THEN [industry |-> scoring_engine.industry_multipliers[m.best].name,
              multiplier |-> scoring_engine.industry_multipliers[m.best].multiplier,
              confidence |-> scoring_engine.industry_multipliers[m.best].confidence]
        ELSE [industry |-> "other", multiplier |-> 100, confidence |-> "low"]

\* the amounts _calculate_llm_adjustment adds to `adjustment`, in the order it adds them
api_detected_adjustments(data) ==
    LET description == lower(str(get(data, "Description", StrV(<<>>))))
        fields_completed == Cardinality({k \in {"Company Domain Name", "Description", "Year Founded",
                                                 "LinkedIn Company Page"} : Truthy(get(data, k, NoneV))})
    IN  (IF AnyIn(<<<<"e", "x", "p", "a", "n", "s", "i", "o", "n">>, <<"n", "e", "w", " ", "f", "a", "c", "i", "l", "i", "t", "i", "e", "s">>, <<"g", "r", "o", "w", "i", "n", "g">>>>, description) THEN <<10>> ELSE <<>>)
        \o (IF AnyIn(<<<<"i", "n", "n", "o", "v", "a", "t", "i", "o", "n">>, <<"t", "e", "c", "h", "n", "o", "l", "o", "g", "y">>, <<"d", "i", "g", "i", "t", "a", "l">>>>, description) THEN <<5>> ELSE <<>>)
        \o (IF AnyIn(<<<<"l", "e", "a", "d", "e", "r">>, <<"l", "e", "a", "d", "i", "n", "g">>, <<"m", "a", "r", "k", "e", "t", " ", "s", "h", "a", "r", "e">>>>, description) THEN <<8>> ELSE <<>>)
        \o (IF AnyIn(<<<<"p", "a", "r", "t", "n", "e", "r", "s", "h", "i", "p">>, <<"s", "t", "r", "a", "t", "e", "g", "i", "c">>>>, description) THEN <<3>> ELSE <<>>)
        \o (IF fields_completed >= 3 THEN <<5>> ELSE IF fields_completed >= 2 THEN <<3>> ELSE <<>>)

\* _calculate_llm_adjustment without its `max(-25, min(25, adjustment))`
api_calculate_llm_adjustment_unclamped(data, industry_score) == SumSeq(api_detected_adjustments(data))

api_calculate_llm_adjustment(data, industry_score) == Clamp(SumSeq(api_detected_adjustments(data)), -25, 25)

\* the phrases of _generate_reasoning, in order; final_score is in Myr
api_generate_reasoning(data, industry, final_score) ==
    LET employees == api_extract_number(str(get(data, "Number of Employees", IntV(0))))
        city == lower(str(get(data, "City", StrV(<<>>))))
    IN  <<IF final_score >= 800000 THEN "High-confidence target"
          ELSE IF final_score >= 600000 THEN "Qualified target candidate"
          ELSE "Below target threshold">>
        \o (IF \E i \in 1..Len(scoring_engine.industry_multipliers) : scoring_engine.industry_multipliers[i].name = industry
            THEN <<"Industry">> ELSE <<>>)
        \o (IF employees >= 1000 THEN <<"Large enterprise">>
            ELSE IF employees >= 200 THEN <<"Medium-large company">>
            ELSE IF employees >= 50 THEN <<"Medium company">> ELSE <<>>)
        \o (IF InList(city, scoring_engine.city_tiers.tier_1_cities) THEN <<"Prime Turkish market location">> ELSE <<>>)

\* round(x, 1) of a score x in Myr, in tenths of a point.  On an exact tie the
\* float Python rounds lies just below or just above the tie: `up` is which
round1(x, up) ==
    LET q == x \div 1000
        r == x % 1000
    IN  IF r < 500 THEN q ELSE IF r > 500 THEN q + 1 ELSE IF up THEN q + 1 ELSE q

\* for each rounded field of a result, the side a tie falls on
Roundings == [base_score : BOOLEAN, industry_adjusted_score : BOOLEAN, final_score : BOOLEAN]

\* sum(score * weight for score, weight in zip(components, weights)), in Cent
weighted_sum(components, weights) ==
    SumSeq([i \in 1..Min(Len(components), Len(weights)) |-> components[i] * weights[i]])

\* the priority with the threshold of 60 excluded
api_priority_above_threshold(final_score) == IF final_score > 600000 THEN "target" ELSE "non_target"

\* `"target" if final_score >= 60 else "non_target"`, final_score in Myr
api_priority(final_score) == IF final_score >= 600000 THEN "target" ELSE "non_target"

\* calculate_score without `industry_adjusted_score = max(0, min(100, industry_adjusted_score))`
api_score_locals_without_industry_clamp(name, data) ==
    LET base_components == api_calculate_base_components(data)
        base_score == Clamp(weighted_sum(base_components, scoring_engine.scoring_weights), 0, 10000)
        detected == api_detect_industry(name, data)
        industry_adjusted_score == base_score * detected.multiplier
        llm_adjustment == api_calculate_llm_adjustment(data, industry_adjusted_score)
        final_score == Clamp(industry_adjusted_score + llm_adjustment * 10000, 0, 1000000)
    IN  [company_name |-> name,
         base_score |-> base_score,
         industry_multiplier |-> detected.multiplier,
         industry_adjusted_score |-> industry_adjusted_score,
         llm_adjustment |-> llm_adjustment,
         final_score |-> final_score,
         detected_industry |-> detected.industry,
         industry_confidence |-> detected.confidence,
         priority_recommendation |-> api_priority(final_score),
         reasoning |-> api_generate_reasoning(data, detected.industry, final_score),
         score_breakdown |-> base_components]

\* calculate_score up to the construction of the result: the local variables, the
\* base score in Cent, the industry-adjusted and the final score in Myr
api_score_locals(name, data) ==
    LET base_components == api_calculate_base_components(data)
        base_score == Clamp(weighted_sum(base_components, scoring_engine.scoring_weights), 0, 10000)
        detected == api_detect_industry(name, data)
        industry_adjusted_score == Clamp(base_score * detected.multiplier, 0, 1000000)
        llm_adjustment == api_calculate_llm_adjustment(data, industry_adjusted_score)
        final_score == Clamp(industry_adjusted_score + llm_adjustment * 10000, 0, 1000000)
    IN  [company_name |-> name,
         base_score |-> base_score,
         industry_multiplier |-> detected.multiplier,
         industry_adjusted_score |-> industry_adjusted_score,
         llm_adjustment |-> llm_adjustment,
         final_score |-> final_score,
         detected_industry |-> detected.industry,
         industry_confidence |-> detected.confidence,
         priority_recommendation |-> api_priority(final_score),
         reasoning |-> api_generate_reasoning(data, detected.industry, final_score),
         score_breakdown |-> base_components]

\* the CompanyScore built from the locals: three scores rounded to one decimal
CompanyScore(locals, ties) ==
    [locals EXCEPT !.base_score = round1(locals.base_score * 100, ties.base_score),
                   !.industry_adjusted_score = round1(locals.industry_adjusted_score, ties.industry_adjusted_score),
                   !.final_score = round1(locals.final_score, ties.final_score)]

\* the results a call may return: one for each side the rounding ties can fall on
CompanyScores(locals) == {CompanyScore(locals, ties) : ties \in Roundings}

api_calculate_score(name, data, ties) == CompanyScore(api_score_locals(name, data), ties)

-----------------------------------------------------------------------------
(* The engine of src/main.py *)

\* re.sub(r'[^\d.]', '', s): the digits and dots of s
RECURSIVE digits_and_dots(_)
digits_and_dots(s) ==
    IF Len(s) = 0 THEN <<>>
    ELSE IF Len(s) = 1 THEN (IF IsDigit(s[1]) \/ s[1] = "." THEN s ELSE <<>>)
    ELSE digits_and_dots(SubSeq(s, 1, Len(s) \div 2)) \o digits_and_dots(SubSeq(s, (Len(s) \div 2) + 1, Len(s)))

\* s without its dots
RECURSIVE without_dots(_)
without_dots(s) ==
    IF s = <<>> THEN <<>>
    ELSE (IF Head(s) = "." THEN <<>> ELSE <<Head(s)>>) \o without_dots(Tail(s))

\* _safe_float_enhanced(value): max(0, number); for a string the digits and dots
\* that remain, every dot but the last dropped; 0 when that is not a float
main_safe_float_enhanced(value) ==
    CASE value.t \in {"int", "float"} -> Dec(Max(0, value.n), value.f)
      [] value.t = "str" /\ strip(value.s) # <<>> ->
            LET clean == digits_and_dots(value.s)
                dots == {i \in 1..Len(clean) : clean[i] = "."}
                last == IF dots = {} THEN Len(clean) + 1 ELSE CHOOSE i \in dots : \A j \in dots : j <= i
                whole == without_dots(SubSeq(clean, 1, last - 1))
                frac == SubSeq(clean, last + 1, Len(clean))
            IN  IF whole = <<>> /\ frac = <<>> THEN Dec(0, 0)
                ELSE Dec(DigitsVal(whole), FracVal(frac))
      [] OTHER -> Dec(0, 0)

\* re.search(r'(\d+(?:\.\d+)?)', s): the first digit run and the fraction after it
first_decimal(s) ==
    LET p == FirstDigitPos(s)
        run == DigitRun(s, p)
        q == p + Len(run)
        frac == IF q <= Len(s) /\ s[q] = "." THEN DigitRun(s, q + 1) ELSE <<>>
    IN  Dec(DigitsVal(run), FracVal(frac))

\* _extract_number_enhanced(text)
main_extract_number_enhanced(text) ==
    IF text.t \in {"int", "float"} THEN Max(0, text.n)
    ELSE LET text_str == lower(strip(str(text)))
         IN  IF (Contains(<<"k">>, text_str) \/ Contains(<<"b", "i", "n">>, text_str)) /\ HasDigit(text_str)
             THEN Max(0, first_decimal(text_str).whole * 1000 + first_decimal(text_str).frac)
             ELSE IF ~(Contains(<<"k">>, text_str) \/ Contains(<<"b", "i", "n">>, text_str))
                     /\ (Contains(<<"m">>, text_str) \/ Contains(<<"m", "i", "l", "y", "o", "n">>, text_str)) /\ HasDigit(text_str)
             THEN Max(0, first_decimal(text_str).whole * 1000000 + first_decimal(text_str).frac * 1000)
             ELSE Max(0, FirstNumber(text_str))

main_evaluate_company_size(data) ==
    LET employees == main_extract_number_enhanced(get(data, "number_of_employees", get(data, "employees_estimate", IntV(0))))
        revenue == main_safe_float_enhanced(get(data, "annual_revenue", get(data, "revenue_estimate", IntV(0))))
        score == 30
            + (IF employees >= 5000 THEN 30
               ELSE IF employees >= 1000 THEN 25
               ELSE IF employees >= 200 THEN 15
               ELSE IF employees >= 50 THEN 10
               ELSE IF employees >= 1 THEN 5 ELSE 0)
            + (IF DecGE(revenue, 1000000000) THEN 25
               ELSE IF DecGE(revenue, 200000000) THEN 20
               ELSE IF DecGE(revenue, 100000000) THEN 15
               ELSE IF DecGE(revenue, 20000000) THEN 10
               ELSE IF DecGT(revenue, 0) THEN 3 ELSE 0)
    IN  Min(score, 100)

\* the tiers tested with `if` in place of `elif`: every tier the city matches adds its bonus
main_evaluate_geographic_presence_every_tier(data) ==
    LET city == lower(str(get(data, "city", get(data, "headquarters", StrV(<<>>)))))
        description == lower(str(get(data, "description", StrV(<<>>))))
        score == 50
            + (IF AnyIn(scoring_engine.city_tiers.tier_1_cities, city) THEN 25 ELSE 0)
            + (IF AnyIn(scoring_engine.city_tiers.tier_2_cities, city) THEN 20 ELSE 0)
            + (IF AnyIn(scoring_engine.city_tiers.tier_3_cities, city) THEN 15 ELSE 0)
            + (IF AnyIn(scoring_engine.city_tiers.industrial_regions, city) THEN 18 ELSE 8)
            + (IF AnyIn(<<<<"i", "n", "t", "e", "r", "n", "a", "t", "i", "o", "n", "a", "l">>, <<"g", "l", "o", "b", "a", "l">>, <<"e", "x", "p", "o", "r", "t">>, <<"w", "o", "r", "l", "d", "w", "i", "d", "e">>, <<"u", "l", "u", "s", "l", "a", "r", "a", "r", "a", "s", "U+0131">>>>, description)
               THEN 15 ELSE 0)
    IN  Min(score, 100)

main_evaluate_geographic_presence(data) ==
    LET city == lower(str(get(data, "city", get(data, "headquarters", StrV(<<>>)))))
        description == lower(str(get(data, "description", StrV(<<>>))))
        score == 50
            + (IF AnyIn(scoring_engine.city_tiers.tier_1_cities, city) THEN 25
               ELSE IF AnyIn(scoring_engine.city_tiers.tier_2_cities, city) THEN 20
               ELSE IF AnyIn(scoring_engine.city_tiers.tier_3_cities, city) THEN 15
               ELSE IF AnyIn(scoring_engine.city_tiers.industrial_regions, city) THEN 18
               ELSE 8)
            + (IF AnyIn(<<<<"i", "n", "t", "e", "r", "n", "a", "t", "i", "o", "n", "a", "l">>, <<"g", "l", "o", "b", "a", "l">>, <<"e", "x", "p", "o", "r", "t">>, <<"w", "o", "r", "l", "d", "w", "i", "d", "e">>, <<"u", "l", "u", "s", "l", "a", "r", "a", "r", "a", "s", "U+0131">>>>, description)
               THEN 15 ELSE 0)
    IN  Min(score, 100)

\* the adjustments with a crisis signal that weighs -30
main_detected_adjustments_heavier_risk(data) ==
    LET description == lower(str(get(data, "description", StrV(<<>>))))
        fields_completed == Cardinality({k \in {"company_domain_name", "description", "year_founded"} :
                                            Truthy(get(data, k, NoneV))})
    IN  (IF AnyIn(<<<<"e", "x", "p", "a", "n", "s", "i", "o", "n">>, <<"n", "e", "w", " ", "f", "a", "c", "i", "l", "i", "t", "i", "e", "s">>, <<"g", "r", "o", "w", "i", "n", "g">>, <<"b", "U+00FC", "y", "U+00FC", "m", "e">>, <<"g", "e", "n", "i", "U+015F", "l", "e", "m", "e">>>>, description)
         THEN <<10>> ELSE <<>>)
        \o (IF AnyIn(<<<<"i", "n", "n", "o", "v", "a", "t", "i", "o", "n">>, <<"t", "e", "c", "h", "n", "o", "l", "o", "g", "y">>, <<"d", "i", "g", "i", "t", "a", "l">>, <<"i", "n", "o", "v", "a", "s", "y", "o", "n">>, <<"t", "e", "k", "n", "o", "l", "o", "j", "i">>>>, description)
            THEN <<8>> ELSE <<>>)
        \o (IF AnyIn(<<<<"l", "e", "a", "d", "e", "r">>, <<"l", "e", "a", "d", "i", "n", "g">>, <<"m", "a", "r", "k", "e", "t", " ", "s", "h", "a", "r", "e">>, <<"l", "i", "d", "e", "r">>, <<"U+00F6", "n", "d", "e", "r">>>>, description)
            THEN <<12>> ELSE <<>>)
        \o (IF AnyIn(<<<<"p", "a", "r", "t", "n", "e", "r", "s", "h", "i", "p">>, <<"s", "t", "r", "a", "t", "e", "g", "i", "c">>, <<"o", "r", "t", "a", "k", "l", "U+0131", "k">>, <<"s", "t", "r", "a", "t", "e", "j", "i", "k">>>>, description)
            THEN <<6>> ELSE <<>>)
        \o (IF fields_completed >= 3 THEN <<8>> ELSE IF fields_completed >= 2 THEN <<4>> ELSE <<>>)
        \o (IF AnyIn(<<<<"c", "r", "i", "s", "i", "s">>, <<"d", "o", "w", "n", "s", "i", "z", "i", "n", "g">>, <<"k", "r", "i", "z">>, <<"k", "U+00FC", "U+00E7", "U+00FC", "l", "m", "e">>>>, description)
            THEN <<-30>> ELSE <<>>)

\* the values of the `adjustments` list, in the order the code appends them
main_detected_adjustments(data) ==
    LET description == lower(str(get(data, "description", StrV(<<>>))))
        fields_completed == Cardinality({k \in {"company_domain_name", "description", "year_founded"} :
                                            Truthy(get(data, k, NoneV))})
    IN  (IF AnyIn(<<<<"e", "x", "p", "a", "n", "s", "i", "o", "n">>, <<"n", "e", "w", " ", "f", "a", "c", "i", "l", "i", "t", "i", "e", "s">>, <<"g", "r", "o", "w", "i", "n", "g">>, <<"b", "U+00FC", "y", "U+00FC", "m", "e">>, <<"g", "e", "n", "i", "U+015F", "l", "e", "m", "e">>>>, description)
         THEN <<10>> ELSE <<>>)
        \o (IF AnyIn(<<<<"i", "n", "n", "o", "v", "a", "t", "i", "o", "n">>, <<"t", "e", "c", "h", "n", "o", "l", "o", "g", "y">>, <<"d", "i", "g", "i", "t", "a", "l">>, <<"i", "n", "o", "v", "a", "s", "y", "o", "n">>, <<"t", "e", "k", "n", "o", "l", "o", "j", "i">>>>, description)
            THEN <<8>> ELSE <<>>)
        \o (IF AnyIn(<<<<"l", "e", "a", "d", "e", "r">>, <<"l", "e", "a", "d", "i", "n", "g">>, <<"m", "a", "r", "k", "e", "t", " ", "s", "h", "a", "r", "e">>, <<"l", "i", "d", "e", "r">>, <<"U+00F6", "n", "d", "e", "r">>>>, description)
            THEN <<12>> ELSE <<>>)
        \o (IF AnyIn(<<<<"p", "a", "r", "t", "n", "e", "r", "s", "h", "i", "p">>, <<"s", "t", "r", "a", "t", "e", "g", "i", "c">>, <<"o", "r", "t", "a", "k", "l", "U+0131", "k">>, <<"s", "t", "r", "a", "t", "e", "j", "i", "k">>>>, description)
            THEN <<6>> ELSE <<>>)
        \o (IF fields_completed >= 3 THEN <<8>> ELSE IF fields_completed >= 2 THEN <<4>> ELSE <<>>)
        \o (IF AnyIn(<<<<"c", "r", "i", "s", "i", "s">>, <<"d", "o", "w", "n", "s", "i", "z", "i", "n", "g">>, <<"k", "r", "i", "z">>, <<"k", "U+00FC", "U+00E7", "U+00FC", "l", "m", "e">>>>, description)
            THEN <<-15>> ELSE <<>>)

Abs(x) == IF x < 0 THEN -x ELSE x

\* x put into a list sorted by descending |value|, after the elements that tie with it
RECURSIVE insert_by_impact(_, _)
insert_by_impact(sorted, x) ==
    IF sorted = <<>> THEN <<x>>
    ELSE IF Abs(Head(sorted)) >= Abs(x) THEN <<Head(sorted)>> \o insert_by_impact(Tail(sorted), x)
    ELSE <<x>> \o sorted

\* the adjustments left in the order they were detected in
main_unsorted_adjustments(adjustments) == adjustments

\* adjustments.sort(key=lambda x: abs(x[1]), reverse=True): a stable sort
RECURSIVE main_sort_adjustments(_)
main_sort_adjustments(adjustments) ==
    IF adjustments = <<>> THEN <<>>
    ELSE insert_by_impact(main_sort_adjustments(SubSeq(adjustments, 1, Len(adjustments) - 1)),
                          adjustments[Len(adjustments)])

\* every adjustment from element i on taken, whatever the total becomes
main_select_every_adjustment(adjustments, i, selected_adjustment) ==
    selected_adjustment + SumSeq(SubSeq(adjustments, i, Len(adjustments)))

\* the `for name, value, reason in adjustments` loop from element i on
RECURSIVE main_select_adjustments(_, _, _)
main_select_adjustments(adjustments, i, selected_adjustment) ==
    IF i > Len(adjustments) THEN selected_adjustment
    ELSE LET potential_total == selected_adjustment + adjustments[i]
         IN  main_select_adjustments(adjustments, i + 1,
                 IF -25 <= potential_total /\ potential_total <= 25
                 THEN potential_total ELSE selected_adjustment)

main_calculate_llm_adjustment_enhanced(data, industry_score) ==
    LET adjustments == main_sort_adjustments(main_detected_adjustments(data))
        total_positive == SumSeq([i \in 1..Len(adjustments) |-> IF adjustments[i] > 0 THEN adjustments[i] ELSE 0])
        total_negative == SumSeq([i \in 1..Len(adjustments) |-> IF adjustments[i] < 0 THEN adjustments[i] ELSE 0])
        total_adjustment ==
            IF total_positive + total_negative > 25 THEN main_select_adjustments(adjustments, 1, 0)
            ELSE IF total_positive + total_negative < -25 THEN Max(-25, total_positive + total_negative)
            ELSE total_positive + total_negative
    IN  Max(-25, Min(25, total_adjustment))

\* _calculate_data_quality, in tenths: round((required/4 * 0.7 + optional/4 * 0.3) * 100, 1)
main_calculate_data_quality(data) ==
    LET required == Cardinality({k \in {"company_name", "industry", "annual_revenue", "number_of_employees"} :
                                    Truthy(get(data, k, NoneV))})
        optional == Cardinality({k \in {"city", "description", "company_domain_name", "year_founded"} :
                                    Truthy(get(data, k, NoneV))})
    IN  175 * required + 75 * optional

\* `len(keyword) * (2 if len(keyword) > 5 else 1)` (line 640)
main_keyword_weight(keyword) == Len(keyword) * (IF Len(keyword) > 5 THEN 2 ELSE 1)

main_profile_score(industry_info, text) ==
    SumSeq([i \in 1..Len(industry_info.keywords) |->
              IF Contains(industry_info.keywords[i], text)
              THEN main_keyword_weight(industry_info.keywords[i]) ELSE 0])

\* `if score > max_score` (line 642)
main_replaces(score, max_score) == score > max_score

RECURSIVE main_best_match(_, _, _, _)
main_best_match(text, i, best, max_score) ==
    IF i > Len(scoring_engine.industry_multipliers) THEN [best |-> best, max_score |-> max_score]
    ELSE LET score == main_profile_score(scoring_engine.industry_multipliers[i], text)
         IN  IF main_replaces(score, max_score)
             THEN main_best_match(text, i + 1, i, score)
             ELSE main_best_match(text, i + 1, best, max_score)

main_detect_industry(name, data) ==
    LET text == combined_text(name, get(data, "industry", StrV(<<>>)), get(data, "description", StrV(<<>>)))
        m == main_best_match(text, 1, 0, 0)
    IN  IF m.best # 0 /\ m.max_score > 0
        THEN [industry |-> scoring_engine.industry_multipliers[m.best].name,
              multiplier |-> scoring_engine.industry_multipliers[m.best].multiplier,
              confidence |-> scoring_engine.industry_multipliers[m.best].confidence]
        ELSE [industry |-> "other", multiplier |-> 100, confidence |-> "low"]

main_generate_reasoning(data, industry, final_score) ==
    LET employees == main_extract_number_enhanced(get(data, "number_of_employees", IntV(0)))
        city == lower(str(get(data, "city", get(data, "headquarters", StrV(<<>>)))))
    IN  <<IF final_score >= 850000 THEN "High-confidence target"
          ELSE IF final_score >= 700000 THEN "Strong target candidate"
          ELSE IF final_score >= 600000 THEN "Qualified target candidate"
          ELSE "Below target threshold">>
        \o (IF \E i \in 1..Len(scoring_engine.industry_multipliers) : scoring_engine.industry_multipliers[i].name = industry
            THEN <<"Industry">> ELSE <<>>)
        \o (IF employees >= 1000 THEN <<"Large enterprise">>
            ELSE IF employees >= 200 THEN <<"Medium-large company">>
            ELSE IF employees >= 50 THEN <<"Medium company">> ELSE <<>>)
        \o (IF AnyIn(scoring_engine.city_tiers.tier_1_cities, city) THEN <<"Prime Turkish market location">>
            ELSE IF AnyIn(scoring_engine.city_tiers.tier_2_cities, city) THEN <<"Major Turkish market location">>
            ELSE <<>>)

\* markupsafe.escape of one character
EscapeChar(c) ==
    CASE c = "&" -> <<"&", "a", "m", "p", ";">>
      [] c = "<" -> <<"&", "l", "t", ";">>
      [] c = ">" -> <<"&", "g", "t", ";">>
      [] c = "'" -> <<"&", "#", "3", "9", ";">>
      [] c = "\"" -> <<"&", "#", "3", "4", ";">>
      [] OTHER -> <<c>>

RECURSIVE escape(_)
escape(s) ==
    IF Len(s) = 0 THEN <<>>
    ELSE IF Len(s) = 1 THEN EscapeChar(s[1])
    ELSE escape(SubSeq(s, 1, Len(s) \div 2)) \o escape(SubSeq(s, (Len(s) \div 2) + 1, Len(s)))

\* the methods class YolwiseScoring of main.py defines
main_methods ==
    {"__init__", "calculate_score", "_calculate_base_components", "_safe_float_enhanced",
     "_extract_number_enhanced", "_evaluate_company_size", "_evaluate_geographic_presence",
     "_calculate_llm_adjustment_enhanced", "_calculate_data_quality", "_detect_industry",
     "_generate_reasoning"}

\* self.<method>(data) for an evaluator: the lookup of a method the class does
\* not define raises AttributeError
main_call_evaluator(method, data) ==
    CASE method \notin main_methods -> [raised |-> TRUE, value |-> 0]
      [] method = "_evaluate_company_size" -> [raised |-> FALSE, value |-> main_evaluate_company_size(data)]
      [] method = "_evaluate_geographic_presence" -> [raised |-> FALSE, value |-> main_evaluate_geographic_presence(data)]

\* _calculate_base_components: the dict display evaluates its five calls in order
main_calculate_base_components(data) ==
    LET evaluators == <<"_evaluate_company_size", "_evaluate_industry_propensity",
                        "_evaluate_financial_capacity", "_evaluate_geographic_presence",
                        "_evaluate_growth_digital_indicators">>
    IN  IF \E i \in 1..Len(evaluators) : main_call_evaluator(evaluators[i], data).raised
        THEN [raised |-> TRUE, error |-> "AttributeError", components |-> <<>>]
        ELSE [raised |-> FALSE, error |-> "",
              components |-> [i \in 1..Len(evaluators) |-> main_call_evaluator(evaluators[i], data).value]]

main_priority(final_score) == IF final_score >= 600000 THEN "target" ELSE "non_target"

\* calculate_score from line 407 on, given the base components: the local
\* variables, the base score in Cent, the adjusted and the final score in Myr
main_score_locals(name, data, base_components) ==
    LET base_score == Clamp(weighted_sum(base_components, scoring_engine.scoring_weights), 0, 10000)
        detected == main_detect_industry(name, data)
        industry_adjusted_score == Clamp(base_score * detected.multiplier, 0, 1000000)
        llm_adjustment == main_calculate_llm_adjustment_enhanced(data, industry_adjusted_score)
        final_score == Clamp(industry_adjusted_score + llm_adjustment * 10000, 0, 1000000)
    IN  [company_name |-> name,
         base_score |-> base_score,
         industry_multiplier |-> detected.multiplier,
         industry_adjusted_score |-> industry_adjusted_score,
         llm_adjustment |-> llm_adjustment,
         final_score |-> final_score,
         detected_industry |-> detected.industry,
         industry_confidence |-> detected.confidence,
         priority_recommendation |-> main_priority(final_score),
         reasoning |-> main_generate_reasoning(data, detected.industry, final_score),
         score_breakdown |-> base_components,
         data_quality_score |-> main_calculate_data_quality(data)]

\* calculate_score up to the construction of the result: the exception raised,
\* or the local variables
main_score_outcome(name, data) ==
    LET company_name_ == SubSeq(escape(name), 1, Min(200, Len(escape(name))))
        base == main_calculate_base_components(data)
    IN  IF base.raised THEN [raised |-> TRUE, error |-> base.error, locals |-> <<>>]
        ELSE [raised |-> FALSE, error |-> "", locals |-> main_score_locals(company_name_, data, base.components)]

\* calculate_score: the outcome of the call, a CompanyScore or the exception raised
main_calculate_score(name, data, ties) ==
    LET outcome == main_score_outcome(name, data)
    IN  IF outcome.raised THEN [raised |-> TRUE, error |-> outcome.error, score |-> <<>>]
        ELSE [raised |-> FALSE, error |-> "", score |-> CompanyScore(outcome.locals, ties)]

-----------------------------------------------------------------------------
(* The calls the model makes: entity names and attribute records *)

\* the attribute names yolwise_scoring_api.py reads
api_keys ==
    {"Number of Employees", "employees_estimate", "Annual Revenue", "revenue_estimate", "Industry",
     "Year Founded", "Company Domain Name", "Street Address", "City", "Description",
     "LinkedIn Company Page", "Facebook Company Page", "Phone Number"}

\* the attribute names main.py reads
main_keys ==
    {"number_of_employees", "employees_estimate", "annual_revenue", "revenue_estimate", "industry",
     "year_founded", "company_domain_name", "city", "headquarters", "description", "company_name"}

Keys == api_keys \cup main_keys

\* the record with no attribute
EmptyData == [k \in Keys |-> Absent]

\* most attributes a record of the scoring runs carries
MaxFields == 3

LongDescription ==
    <<"A", " ", "l", "e", "a", "d", "i", "n", "g", " ", "a", "n", "d", " ", "g", "r", "o", "w", "i", "n", "g", " ", "f", "r", "e", "i", "g", "h", "t", " ", "c", "o", "m", "p", "a", "n", "y", ";", " ", "t", "e", "c", "h", "n", "o", "l", "o", "g", "y", " ", "d", "e", "v", "e", "l", "o", "p", "m", "e", "n", "t", " ", "a", "n", "d", " ", "w", "o", "r", "l", "d", "w", "i", "d", "e", " ", "s", "o", "l", "u", "t", "i", "o", "n", "s", " ", "s", "i", "n", "c", "e", " ", "1", "9", "9", "0", ",", " ", "n", "o", "w", " ", "i", "n", " ", "e", "x", "p", "a", "n", "s", "i", "o", "n", ".">>

\* the values an attribute takes in the scoring runs
Samples(k) ==
    CASE k = "Number of Employees" -> {IntV(6000), StrV(<<"2", "5", "0">>)}
      [] k = "number_of_employees" -> {IntV(6000), StrV(<<"2", "5", "0">>)}
      [] k = "employees_estimate" -> {IntV(60)}
      [] k = "Annual Revenue" -> {IntV(600000000), StrV(<<"6", "0", "0", "0", "0", "0", "0", "0", ".", "5", " ", "T", "L">>)}
      [] k = "annual_revenue" -> {IntV(600000000), StrV(<<"6", "0", "0", "0", "0", "0", "0", "0", ".", "5", " ", "T", "L">>)}
      [] k = "revenue_estimate" -> {FloatV(5000000, 500)}
      [] k = "Industry" -> {StrV(<<"L", "o", "g", "i", "s", "t", "i", "c", "s">>), StrV(<<"M", "i", "n", "i", "n", "g", " ", "&", " ", "M", "e", "t", "a", "l", "s">>), NoneV}
      [] k = "industry" -> {StrV(<<"L", "o", "g", "i", "s", "t", "i", "c", "s">>), StrV(<<"M", "i", "n", "i", "n", "g", " ", "&", " ", "M", "e", "t", "a", "l", "s">>), NoneV}
      [] k = "Year Founded" -> {IntV(1990), StrV(<<"2", "0", "2", "1">>)}
      [] k = "year_founded" -> {IntV(1990), StrV(<<"2", "0", "2", "1">>)}
      [] k = "Company Domain Name" -> {StrV(<<"a", "c", "m", "e", ".", "c", "o", "m">>)}
      [] k = "company_domain_name" -> {StrV(<<"a", "c", "m", "e", ".", "c", "o", "m">>)}
      [] k = "Street Address" -> {StrV(<<"1", " ", "A", "n", "a", " ", "C", "a", "d">>)}
      [] k = "City" -> {StrV(<<"I", "s", "t", "a", "n", "b", "u", "l">>), StrV(<<"b", "u", "r", "s", "a">>)}
      [] k = "city" -> {StrV(<<"I", "s", "t", "a", "n", "b", "u", "l">>), StrV(<<"b", "u", "r", "s", "a">>)}
      [] k = "headquarters" -> {StrV(<<"G", "e", "b", "z", "e">>)}
      [] k = "Description" -> {StrV(LongDescription), StrV(<<"s", "t", "r", "a", "t", "e", "g", "i", "c", " ", "p", "a", "r", "t", "n", "e", "r", "s", "h", "i", "p">>)}
      [] k = "description" -> {StrV(LongDescription), StrV(<<"s", "t", "r", "a", "t", "e", "g", "i", "c", " ", "p", "a", "r", "t", "n", "e", "r", "s", "h", "i", "p">>)}
      [] k = "LinkedIn Company Page" -> {StrV(<<"i", "n", "/", "a", "c", "m", "e">>)}
      [] k = "Facebook Company Page" -> {StrV(<<"f", "b", "/", "a", "c", "m", "e">>)}
      [] k = "Phone Number" -> {StrV(<<"+", "9", "0", " ", "2", "1", "2", " ", "0", "0", "0">>)}
      [] k = "company_name" -> {StrV(<<"A", "c", "m", "e">>)}

\* the records that extend d by one sampled value for every key of K
RECURSIVE Fill(_, _)
Fill(K, d) ==
    IF K = {} THEN {d}
    ELSE LET k == CHOOSE x \in K : TRUE
         IN  UNION {Fill(K \ {k}, [d EXCEPT ![k] = v]) : v \in Samples(k)}

\* the records over the keys `keys` with at most n attributes present
Records(keys, n) == UNION {Fill(K, EmptyData) : K \in {K \in SUBSET keys : Cardinality(K) <= n}}

Names == {<<"A", "c", "m", "e">>, <<"U", "n", "k", "n", "o", "w", "n", " ", "C", "o">>}

NoResult == [none |-> TRUE]

\* a record of the api revision with every attribute the evaluators reward
RichRecord ==
    [EmptyData EXCEPT !["Industry"] = StrV(<<"r", "e", "n", "e", "w", "a", "b", "l", "e", "s", " ", "&", " ", "e", "n", "v", "i", "r", "o", "n", "m", "e", "n", "t">>),
                      !["Number of Employees"] = IntV(6000),
                      !["Annual Revenue"] = IntV(2000000000),
                      !["Year Founded"] = IntV(1990),
                      !["Company Domain Name"] = StrV(<<"a", "c", "m", "e", ".", "c", "o", "m">>),
                      !["City"] = StrV(<<"i", "s", "t", "a", "n", "b", "u", "l">>),
                      !["Street Address"] = StrV(<<"1", " ", "A", "n", "a", " ", "C", "a", "d">>),
                      !["Description"] = StrV(<<"g", "l", "o", "b", "a", "l", " ", "s", "t", "r", "a", "t", "e", "g", "i", "c", " ", "p", "a", "r", "t", "n", "e", "r", "s", "h", "i", "p">>),
                      !["Phone Number"] = StrV(<<"+", "9", "0", " ", "2", "1", "2", " ", "0", "0", "0">>)]

-----------------------------------------------------------------------------
(* Spec: one call of calculate_score on either revision's engine *)

Init ==
    /\ rev \in {"api", "main"}
    /\ scoring_engine = YolwiseScoring(rev)
    /\ NoBatch
    /\ company_name \in Names
    /\ company_data \in Records(IF rev = "api" THEN api_keys ELSE main_keys, MaxFields)
                         \cup (IF rev = "api" THEN {RichRecord} ELSE {})
    /\ other_data = EmptyData
    /\ pc = "called"
    /\ result = NoResult
    /\ other_result = NoResult

\* scoring_engine.calculate_score(company_name, company_data), yolwise_scoring_api.py
CalculateScoreApi ==
    /\ pc = "called" /\ rev = "api"
    /\ result' \in CompanyScores(api_score_locals(company_name, company_data))
    /\ pc' = "returned"
    /\ UNCHANGED <<rev, company_name, company_data, other_data, other_result, scoring_engine, batch_vars, frames, http_vars>>

\* scoring_engine.calculate_score(company_name, company_data), main.py
CalculateScoreMain ==
    /\ pc = "called" /\ rev = "main"
    /\ \E outcome \in {main_score_outcome(company_name, company_data)} :
          /\ pc' = IF outcome.raised THEN "raised" ELSE "returned"
          /\ result' \in IF outcome.raised THEN {[error |-> outcome.error]} ELSE CompanyScores(outcome.locals)
    /\ UNCHANGED <<rev, company_name, company_data, other_data, other_result, scoring_engine, batch_vars, frames, http_vars>>

Next == CalculateScoreApi \/ CalculateScoreMain

Spec == Init /\ [][Next]_vars

-----------------------------------------------------------------------------
(* Claims checked under Spec *)

Returned == pc = "returned"

\* C1: every result calculate_score returns has its five component scores, its
\* base_score, its industry_adjusted_score and its final_score in [0, 100]
\* (the three reported scores are in tenths of a point).
C1_ScoresInRange ==
    Returned =>
        /\ \A i \in 1..5 : result.score_breakdown[i] >= 0 /\ result.score_breakdown[i] <= 100
        /\ result.base_score >= 0 /\ result.base_score <= 1000
        /\ result.industry_adjusted_score >= 0 /\ result.industry_adjusted_score <= 1000
        /\ result.final_score >= 0 /\ result.final_score <= 1000

\* a call whose growth/digital bonuses add up to more than 100 returned the score 100
C1_Witness ==
    /\ Returned /\ rev = "api"
    /\ api_growth_digital_sum(company_data) > 100
    /\ result.score_breakdown[5] = 100

\* C2: calculate_score never raises: every call with a non-empty name returns a
\* CompanyScore, whatever the attribute record holds.
C2_NeverRaises == pc # "raised"

\* C3: the priority label of a result is "target" exactly when the final_score
\* the result reports (rounded to one decimal) is >= 60, "non_target" exactly
\* when it is < 60.
C3_LabelAgreesWithReportedScore ==
    Returned =>
        /\ (result.priority_recommendation = "target") <=> (result.final_score >= 600)
        /\ (result.priority_recommendation = "non_target") <=> (result.final_score < 600)

-----------------------------------------------------------------------------
(* SpecAdjust: one call of the adjustment heuristic on a record and on the  *)
(* same record with one more positive signal                               *)

\* the phrases a description of these runs is made of: growth, innovation, market
\* leadership, partnership, crisis, growth again (Turkish), and a neutral word
SignalPhrases ==
    <<<<"e", "x", "p", "a", "n", "s", "i", "o", "n">>, <<"i", "n", "n", "o", "v", "a", "t", "i", "o", "n">>, <<"m", "a", "r", "k", "e", "t", " ", "s", "h", "a", "r", "e">>, <<"s", "t", "r", "a", "t", "e", "g", "i", "c">>, <<"d", "o", "w", "n", "s", "i", "z", "i", "n", "g">>, <<"b", "U+00FC", "y", "U+00FC", "m", "e">>, <<"l", "o", "g", "i", "s", "t", "i", "c", "s">>>>

\* the phrases that are positive signals
PositivePhrases == {1, 2, 3, 4, 6}

\* most phrases in the description of `company_data`
MaxPhrases == 5

\* the phrases of P in table order, a space after each
RECURSIVE JoinPhrases(_, _)
JoinPhrases(P, i) ==
    IF i > Len(SignalPhrases) THEN <<>>
    ELSE (IF i \in P THEN SignalPhrases[i] \o <<" ">> ELSE <<>>) \o JoinPhrases(P, i + 1)

DescriptionKey(r) == IF r = "api" THEN "Description" ELSE "description"

\* the attributes, besides the description, the data-completeness bonus counts
CompletenessKeys(r) ==
    IF r = "api" THEN {"Company Domain Name", "Year Founded", "LinkedIn Company Page"}
    ELSE {"company_domain_name", "year_founded"}

\* the record whose description holds the phrases P and whose keys C are filled in
AdjustData(r, P, C) ==
    [k \in Keys |->
        IF k = DescriptionKey(r) /\ P # {} THEN StrV(JoinPhrases(P, 1))
        ELSE IF k \in C THEN (IF k \in {"Year Founded", "year_founded"} THEN IntV(1990) ELSE StrV(<<"a", "c", "m", "e", ".", "c", "o", "m">>))
        ELSE Absent]

InitAdjust ==
    /\ rev \in {"api", "main"}
    /\ scoring_engine = YolwiseScoring(rev)
    /\ NoBatch
    /\ company_name \in Names
    /\ \E P \in {Q \in SUBSET (1..Len(SignalPhrases)) : Cardinality(Q) <= MaxPhrases},
          C \in SUBSET CompletenessKeys(rev) :
          /\ company_data = AdjustData(rev, P, C)
          /\ \/ \E e \in PositivePhrases \ P : other_data = AdjustData(rev, P \cup {e}, C)
             \/ \E k \in CompletenessKeys(rev) \ C : other_data = AdjustData(rev, P, C \cup {k})
    /\ pc = "called"
    /\ result = NoResult
    /\ other_result = NoResult

\* self._calculate_llm_adjustment(company_data, industry_adjusted_score), yolwise_scoring_api.py
LlmAdjustment ==
    /\ pc = "called" /\ rev = "api"
    /\ result' = api_calculate_llm_adjustment(company_data, 0)
    /\ other_result' = api_calculate_llm_adjustment(other_data, 0)
    /\ pc' = "returned"
    /\ UNCHANGED <<rev, company_name, company_data, other_data, scoring_engine, batch_vars, frames, http_vars>>

\* self._calculate_llm_adjustment_enhanced(company_data, industry_adjusted_score), main.py
LlmAdjustmentEnhanced ==
    /\ pc = "called" /\ rev = "main"
    /\ result' = main_calculate_llm_adjustment_enhanced(company_data, 0)
    /\ other_result' = main_calculate_llm_adjustment_enhanced(other_data, 0)
    /\ pc' = "returned"
    /\ UNCHANGED <<rev, company_name, company_data, other_data, scoring_engine, batch_vars, frames, http_vars>>

NextAdjust == LlmAdjustment \/ LlmAdjustmentEnhanced

SpecAdjust == InitAdjust /\ [][NextAdjust]_vars

\* the signals the revision under check detects in a record
Detected(data) == IF rev = "api" THEN api_detected_adjustments(data) ELSE main_detected_adjustments(data)

\* C4: the adjustment the heuristic returns lies in [-25, 25], whatever signals
\* are detected.
C4_AdjustmentBounded ==
    Returned =>
        /\ result >= -25 /\ result <= 25
        /\ other_result >= -25 /\ other_result <= 25

\* the detected amounts add up to more than 25 and the call returned 25
C4_Witness ==
    /\ Returned /\ rev = "api"
    /\ SumSeq(api_detected_adjustments(other_data)) > 25
    /\ other_result = 25

\* the documented composition rule (spec 4.4): of the amounts not yet taken, the
\* one of greatest magnitude ...
RECURSIVE ByMagnitude(_)
ByMagnitude(amounts) ==
    IF amounts = <<>> THEN <<>>
    ELSE LET i == CHOOSE i \in 1..Len(amounts) : \A j \in 1..Len(amounts) : Abs(amounts[j]) <= Abs(amounts[i])
         IN  <<amounts[i]>> \o ByMagnitude(SubSeq(amounts, 1, i - 1) \o SubSeq(amounts, i + 1, Len(amounts)))

\* ... is added to the running total only if the total stays within [-25, 25]
RECURSIVE Accumulate(_, _)
Accumulate(amounts, total) ==
    IF amounts = <<>> THEN total
    ELSE Accumulate(Tail(amounts),
                    IF Abs(total + Head(amounts)) <= 25 THEN total + Head(amounts) ELSE total)

DocumentedAdjustment(amounts) == Accumulate(ByMagnitude(amounts), 0)

C6_GreedyLargerThanClamp ==
    (Returned /\ rev = "main" /\ SumSeq(main_detected_adjustments(other_data)) > 25) =>
        /\ other_result # Min(SumSeq(main_detected_adjustments(other_data)), 25)
        /\ Abs(other_result) > Abs(Min(SumSeq(main_detected_adjustments(other_data)), 25))

\* C6 as amended: whenever the detected amounts add up to more than 25, the
\* adjustment _calculate_llm_adjustment_enhanced (main.py) keeps differs from
\* min(sum, 25) and is the smaller of the two in magnitude; the adjustment
\* _calculate_llm_adjustment (yolwise_scoring_api.py) returns is min(sum, 25).
C6_GreedySmallerThanClamp ==
    /\ (Returned /\ rev = "api" /\ SumSeq(api_detected_adjustments(other_data)) > 25) =>
        other_result = Min(SumSeq(api_detected_adjustments(other_data)), 25)
    /\ (Returned /\ rev = "main" /\ SumSeq(main_detected_adjustments(other_data)) > 25) =>
        /\ other_result # Min(SumSeq(main_detected_adjustments(other_data)), 25)
        /\ Abs(other_result) < Abs(Min(SumSeq(main_detected_adjustments(other_data)), 25))
    /\ (Returned /\ rev = "main" /\ SumSeq(main_detected_adjustments(company_data)) > 25) =>
        /\ result # Min(SumSeq(main_detected_adjustments(company_data)), 25)
        /\ Abs(result) < Abs(Min(SumSeq(main_detected_adjustments(company_data)), 25))

\* the detected amounts add up to more than 25 and less than 25 was kept
C6_Witness ==
    /\ Returned /\ rev = "main"
    /\ SumSeq(main_detected_adjustments(other_data)) > 25
    /\ other_result < 25

\* the number of times v occurs in the sequence s
Count(s, v) == Cardinality({i \in 1..Len(s) : s[i] = v})

\* B is A with one more positive amount
OneMorePositive(A, B) ==
    \E x \in {B[i] : i \in 1..Len(B)} :
        /\ x > 0
        /\ \A v \in {A[i] : i \in 1..Len(A)} \cup {B[i] : i \in 1..Len(B)} :
              Count(B, v) = Count(A, v) + (IF v = x THEN 1 ELSE 0)

\* B is A with the data-completeness bonus raised from its medium to its high amount
HigherTier(A, B) ==
    LET lo == IF rev = "api" THEN 3 ELSE 4
        hi == IF rev = "api" THEN 5 ELSE 8
    IN  \A v \in {A[i] : i \in 1..Len(A)} \cup {B[i] : i \in 1..Len(B)} :
            Count(B, v) = Count(A, v) + (IF v = hi THEN 1 ELSE IF v = lo THEN -1 ELSE 0)

\* C7: detecting one more positive signal (growth, innovation, market leadership,
\* partnership, or a higher data-completeness tier), every other detected signal
\* unchanged, never lowers the adjustment.
C7_AdjustmentMonotone ==
    (Returned /\ (OneMorePositive(Detected(company_data), Detected(other_data))
                  \/ HigherTier(Detected(company_data), Detected(other_data)))) =>
        other_result >= result

-----------------------------------------------------------------------------
(* SpecMonotone: two records that differ in one size or location input,     *)
(* scored by the same engine                                                *)

\* numeric employee counts, ascending
EmployeeCounts == <<IntV(-5), IntV(0), IntV(3), IntV(60), IntV(250), FloatV(1200, 500), IntV(6000)>>

\* numeric annual revenues, ascending
Revenues == <<IntV(-5), IntV(0), IntV(5000000), FloatV(60000000, 500), IntV(600000000), IntV(1500000000)>>

\* cities outside the tier-1 list, and cities of it
OtherCities == {StrV(<<"B", "u", "r", "s", "a">>), StrV(<<"G", "e", "b", "z", "e">>), StrV(<<"P", "a", "r", "i", "s">>), StrV(<<"B", "u", "r", "s", "a", " ", "-", " ", "G", "e", "b", "z", "e">>)}
Tier1Cities == {StrV(<<"I", "s", "t", "a", "n", "b", "u", "l">>), StrV(<<"a", "n", "k", "a", "r", "a">>)}

EmployeesKey(r) == IF r = "api" THEN "Number of Employees" ELSE "number_of_employees"
RevenueKey(r) == IF r = "api" THEN "Annual Revenue" ELSE "annual_revenue"
CityKey(r) == IF r = "api" THEN "City" ELSE "city"

\* most attributes the two records have in common
MaxBaseFields == 1

\* the pairs <<a, b>> of elements of the ascending sequence s with a not after b
Ascending(s) == {<<s[p[1]], s[p[2]]>> : p \in {q \in (1..Len(s)) \X (1..Len(s)) : q[1] <= q[2]}}

\* the pairs <<a, b>> of values of key k of which b is the larger, or the tier-1 city
IncreasingPairs(r, k) ==
    IF k = EmployeesKey(r) THEN Ascending(EmployeeCounts)
    ELSE IF k = RevenueKey(r) THEN Ascending(Revenues)
    ELSE IF k = CityKey(r) THEN OtherCities \X Tier1Cities
    ELSE {}

VariedKeys(r) == {EmployeesKey(r), RevenueKey(r), CityKey(r)}

\* a and b differ only in one employee count, annual revenue or city, b's the larger
DifferInOneIncreasedInput(r, a, b) ==
    \E k \in VariedKeys(r) :
        /\ <<a[k], b[k]>> \in IncreasingPairs(r, k)
        /\ \A j \in Keys \ {k} : a[j] = b[j]

InitMonotone ==
    /\ rev \in {"api", "main"}
    /\ scoring_engine = YolwiseScoring(rev)
    /\ NoBatch
    /\ company_name \in Names
    /\ \E k \in VariedKeys(rev) :
          \E base \in Records((IF rev = "api" THEN api_keys ELSE main_keys) \ {k}, MaxBaseFields),
             p \in IncreasingPairs(rev, k) :
              /\ company_data = [base EXCEPT ![k] = p[1]]
              /\ other_data = [base EXCEPT ![k] = p[2]]
    /\ pc = "called"
    /\ result = NoResult
    /\ other_result = NoResult

\* the results of two calls whose rounding ties fall on the same side
PairScores(locals, other_locals) ==
    {<<CompanyScore(locals, ties), CompanyScore(other_locals, ties)>> : ties \in Roundings}

\* calculate_score on each of the two records, yolwise_scoring_api.py
CalculateScorePairApi ==
    /\ pc = "called" /\ rev = "api"
    /\ \E scores \in PairScores(api_score_locals(company_name, company_data),
                                api_score_locals(company_name, other_data)) :
          /\ result' = scores[1]
          /\ other_result' = scores[2]
    /\ pc' = "returned"
    /\ UNCHANGED <<rev, company_name, company_data, other_data, scoring_engine, batch_vars, frames, http_vars>>

\* the two evaluators class YolwiseScoring of main.py defines, on each of the two records
EvaluatePairMain ==
    /\ pc = "called" /\ rev = "main"
    /\ result' = [company_size |-> main_evaluate_company_size(company_data),
                  geographic_presence |-> main_evaluate_geographic_presence(company_data)]
    /\ other_result' = [company_size |-> main_evaluate_company_size(other_data),
                        geographic_presence |-> main_evaluate_geographic_presence(other_data)]
    /\ pc' = "returned"
    /\ UNCHANGED <<rev, company_name, company_data, other_data, scoring_engine, batch_vars, frames, http_vars>>

NextMonotone == CalculateScorePairApi \/ EvaluatePairMain

SpecMonotone == InitMonotone /\ [][NextMonotone]_vars

\* C8: of two records that differ only in a numeric employee count (a <= b), a
\* numeric annual revenue (a <= b) or the city (not tier-1 against tier-1), the
\* one with the larger value or the tier-1 city gets a final_score at least as
\* high as the other's (main.py: company-size and geographic scores at least as high).
C8_ScoreMonotoneInSizeAndCity ==
    (Returned /\ DifferInOneIncreasedInput(rev, company_data, other_data)) =>
        IF rev = "api" THEN other_result.final_score >= result.final_score
        ELSE /\ other_result.company_size >= result.company_size
             /\ other_result.geographic_presence >= result.geographic_presence

-----------------------------------------------------------------------------
(* SpecIndustry: one call of _detect_industry *)

\* the words a description of these runs is made of
IndustryWords ==
    <<<<"f", "r", "e", "i", "g", "h", "t">>, <<"d", "e", "l", "i", "v", "e", "r", "y">>, <<"h", "e", "a", "l", "t", "h", "c", "a", "r", "e">>, <<"p", "h", "a", "r", "m", "a", "c", "e", "u", "t", "i", "c", "a", "l">>, <<"s", "o", "f", "t", "w", "a", "r", "e">>, <<"i", "l", "a", "U+00E7">>, <<"u", "t", "i", "l", "i", "t", "i", "e", "s">>, <<"g", "a", "r", "d", "e", "n">>>>

\* most words in a description
MaxWords == 2

IndustryNames == {<<"A", "c", "m", "e">>, <<"D", "e", "l", "t", "a", " ", "F", "r", "e", "i", "g", "h", "t">>}

IndustryValues == {Absent, NoneV, StrV(<<>>), IntV(0), StrV(<<"L", "o", "g", "i", "s", "t", "i", "c", "s">>), StrV(<<"I", "T">>)}

\* the words of W in table order, a space after each
RECURSIVE JoinWords(_, _)
JoinWords(W, i) ==
    IF i > Len(IndustryWords) THEN <<>>
    ELSE (IF i \in W THEN IndustryWords[i] \o <<" ">> ELSE <<>>) \o JoinWords(W, i + 1)

IndustryKey(r) == IF r = "api" THEN "Industry" ELSE "industry"

InitIndustry ==
    /\ rev \in {"api", "main"}
    /\ scoring_engine = YolwiseScoring(rev)
    /\ NoBatch
    /\ company_name \in IndustryNames
    /\ \E W \in {V \in SUBSET (1..Len(IndustryWords)) : Cardinality(V) <= MaxWords},
          industry \in IndustryValues :
          \E description \in {StrV(JoinWords(W, 1))} \cup (IF W = {} THEN {Absent} ELSE {}) :
             company_data = [EmptyData EXCEPT ![IndustryKey(rev)] = industry,
                                              ![DescriptionKey(rev)] = description]
    /\ other_data = EmptyData
    /\ pc = "called"
    /\ result = NoResult
    /\ other_result = NoResult

\* self._detect_industry(company_name, company_data), yolwise_scoring_api.py
DetectIndustryApi ==
    /\ pc = "called" /\ rev = "api"
    /\ result' = api_detect_industry(company_name, company_data)
    /\ pc' = "returned"
    /\ UNCHANGED <<rev, company_name, company_data, other_data, other_result, scoring_engine, batch_vars, frames, http_vars>>

\* self._detect_industry(company_name, company_data), main.py
DetectIndustryMain ==
    /\ pc = "called" /\ rev = "main"
    /\ result' = main_detect_industry(company_name, company_data)
    /\ pc' = "returned"
    /\ UNCHANGED <<rev, company_name, company_data, other_data, other_result, scoring_engine, batch_vars, frames, http_vars>>

NextIndustry == DetectIndustryApi \/ DetectIndustryMain

SpecIndustry == InitIndustry /\ [][NextIndustry]_vars

\* the profile table of the revision under check
Profiles == IF rev = "api" THEN api_industry_multipliers ELSE main_industry_multipliers

\* the text the call matches keywords against
MatchedText ==
    combined_text(company_name, get(company_data, IndustryKey(rev), StrV(<<>>)),
                  get(company_data, DescriptionKey(rev), StrV(<<>>)))

\* the accumulated keyword score of profile i
ProfileScore(i) ==
    IF rev = "api" THEN api_profile_score(Profiles[i], MatchedText)
    ELSE main_profile_score(Profiles[i], MatchedText)

\* C9: _detect_industry returns the profile with the highest accumulated keyword
\* score; of profiles that tie on the highest score it returns the first in the
\* table's order (a later profile replaces the best so far only with a strictly
\* greater score).
C9_FirstOfHighestScore ==
    Returned =>
        \A b \in 1..Len(Profiles) :
            result.industry = Profiles[b].name =>
                /\ \A i \in 1..Len(Profiles) : ProfileScore(i) <= ProfileScore(b)
                /\ \A i \in 1..(b - 1) : ProfileScore(i) < ProfileScore(b)

\* two profiles tie on the highest score and the call returned the first of them
C9_Witness ==
    /\ Returned
    /\ \E b \in 1..Len(Profiles), c \in 1..Len(Profiles) :
          /\ b < c
          /\ result.industry = Profiles[b].name
          /\ ProfileScore(b) = ProfileScore(c)
          /\ \A i \in 1..Len(Profiles) : ProfileScore(i) <= ProfileScore(b)

\* no keyword of any profile is a substring of the matched text
NoKeywordMatches ==
    \A i \in 1..Len(Profiles) : \A j \in 1..Len(Profiles[i].keywords) :
        ~Contains(Profiles[i].keywords[j], MatchedText)

\* C10: _detect_industry returns ("other", 1.0, "low") exactly when no keyword of
\* any profile is a substring of the lower-cased name + industry + description
\* text; otherwise it returns a tag of the table with that tag's own multiplier
\* and confidence (multipliers in hundredths).
C10_DefaultExactlyWhenNoMatch ==
    Returned =>
        /\ (result = [industry |-> "other", multiplier |-> 100, confidence |-> "low"]) <=> NoKeywordMatches
        /\ ~NoKeywordMatches =>
              \E i \in 1..Len(Profiles) :
                  result = [industry |-> Profiles[i].name,
                            multiplier |-> Profiles[i].multiplier,
                            confidence |-> Profiles[i].confidence]

\* a call with an industry and a description no keyword matches returned the default
C10_Witness ==
    /\ Returned
    /\ company_data[IndustryKey(rev)] = NoneV
    /\ company_data[DescriptionKey(rev)] # Absent
    /\ NoKeywordMatches
    /\ result = [industry |-> "other", multiplier |-> 100, confidence |-> "low"]

\* a field that is missing, null, the empty string or zero
EmptyOrZero(v) == v \in {Absent, NoneV, StrV(<<>>), IntV(0)}

\* every field of the record is empty or zero
AllEmptyOrZero(data) == \A k \in DOMAIN data : EmptyOrZero(data[k])

\* a keyword of some profile is a substring of the lower-cased text
HasKeyword(text) ==
    \E i \in 1..Len(Profiles) : \E k \in 1..Len(Profiles[i].keywords) :
        Contains(Profiles[i].keywords[k], lower(text))

\* C13 as stated: a record whose fields are all empty or zero is classified as
\* industry "other" with multiplier 1.0, for every entity name it is scored under.
C13_EmptyRecordIsOther ==
    (Returned /\ AllEmptyOrZero(company_data)) =>
        (result.industry = "other" /\ result.multiplier = 100)

\* C13 amended: a record whose fields are all empty or zero is classified as
\* industry "other" with multiplier 1.0 for every entity name that contains no
\* keyword of any profile; under a name that contains one, it is classified as a
\* profile of the table.
C13_EmptyRecordIsOtherUnlessNameMatches ==
    (Returned /\ AllEmptyOrZero(company_data)) =>
        IF HasKeyword(company_name)
        THEN \E i \in 1..Len(Profiles) : /\ result.industry = Profiles[i].name
                                          /\ result.multiplier = Profiles[i].multiplier
        ELSE result.industry = "other" /\ result.multiplier = 100 /\ result.confidence = "low"

\* a record with an empty industry and an empty description was classified under a
\* name without a keyword
C13_Witness ==
    /\ Returned /\ ~HasKeyword(company_name)
    /\ company_data[IndustryKey(rev)] = StrV(<<>>) /\ company_data[DescriptionKey(rev)] = StrV(<<>>)
    /\ result.industry = "other"

-----------------------------------------------------------------------------
(* Claims on the record with no attributes, checked under Spec *)

\* calculate_score("Unknown Co", {}) has returned
EmptyCall == Returned /\ company_name = <<"U", "n", "k", "n", "o", "w", "n", " ", "C", "o">> /\ company_data = EmptyData

\* the reported base score, in tenths, of five component scores under the engine's weights
ReportedBase(components) == weighted_sum(components, scoring_engine.scoring_weights) \div 10

\* C12 as stated: for an empty attributes map (name "Unknown Co"), base_score is the
\* sum over the five evaluators of weight x the evaluator's start value with no
\* bonus added (30, 30, 40, 50, 30), the detected industry is "other", the
\* adjustment is 0 and the priority is "non_target".
C12_UnbonusedFloors ==
    EmptyCall =>
        /\ result.base_score = ReportedBase(<<30, 30, 40, 50, 30>>)
        /\ result.detected_industry = "other"
        /\ result.llm_adjustment = 0
        /\ result.priority_recommendation = "non_target"

\* C12 amended: for an empty attributes map (name "Unknown Co"), base_score is the
\* sum over the five evaluators of weight x the score the evaluator gives a record
\* with no attribute: the start value for four of them (30, 30, 40, 30) and, for
\* the geographic evaluator, its start value 50 plus the bonus 5 it adds for a
\* city in no tier, which the absent city is; the detected industry is "other",
\* the adjustment is 0 and the priority is "non_target".
C12_FloorsWithOtherCityBonus ==
    EmptyCall =>
        /\ result.score_breakdown = <<30, 30, 40, 50 + 5, 30>>
        /\ result.base_score = ReportedBase(<<30, 30, 40, 50 + 5, 30>>)
        /\ result.detected_industry = "other"
        /\ result.industry_multiplier = 100
        /\ result.llm_adjustment = 0
        /\ result.priority_recommendation = "non_target"

\* the empty record was scored under the name "Unknown Co" and its base score is 34.5
C12_Witness == EmptyCall /\ rev = "api" /\ result.base_score = 345

-----------------------------------------------------------------------------
(* Claim on the weights, checked under Spec *)

\* the weight each component is documented to have, in hundredths
NamedWeight ==
    [company_size |-> 35, industry_propensity |-> 25, financial_capacity |-> 20,
     geographic |-> 10, growth_digital |-> 10]

\* the component a key of scoring_weights or of the component dict names
ComponentNamed(key) ==
    CASE key \in {"company_size_indicator", "company_size_score"} -> "company_size"
      [] key \in {"industry_b2b_propensity", "industry_propensity_score"} -> "industry_propensity"
      [] key \in {"financial_capacity", "financial_capacity_score"} -> "financial_capacity"
      [] key \in {"geographic_presence", "geographic_score"} -> "geographic"
      [] key \in {"growth_digital_indicators", "growth_digital_score"} -> "growth_digital"

\* the sum of each component score times its own named weight, clamped, in Cent
NamedWeightedSum(score_breakdown) ==
    Clamp(SumSeq([i \in 1..Len(base_component_names) |->
                     score_breakdown[i] * NamedWeight[ComponentNamed(base_component_names[i])]]),
          0, 10000)

\* C20: the five scoring weights sum to 1.0, and base_score is the clamped
\* weighted sum in which each component score is multiplied by its own named
\* weight (company size 0.35, industry propensity 0.25, financial capacity 0.20,
\* geographic 0.10, growth/digital 0.10): position by position, the component
\* score and the weight that are paired name the same component.
C20_WeightsPairedByName ==
    /\ Len(scoring_engine.scoring_weights) = 5
    /\ SumSeq(scoring_engine.scoring_weights) = 100
    /\ \A i \in 1..5 :
          /\ ComponentNamed(scoring_weight_names[i]) = ComponentNamed(base_component_names[i])
          /\ scoring_engine.scoring_weights[i] = NamedWeight[ComponentNamed(base_component_names[i])]
    /\ Returned =>
          \E up \in BOOLEAN :
              result.base_score = round1(NamedWeightedSum(result.score_breakdown) * 100, up)

\* a result whose company-size and industry-propensity scores differ, so that
\* exchanging their weights would change the base score
C20_Witness ==
    /\ Returned /\ rev = "api"
    /\ result.score_breakdown[1] > result.score_breakdown[2]
    /\ result.score_breakdown[4] > result.score_breakdown[3]

-----------------------------------------------------------------------------
(* SpecRepeat: _detect_industry called twice on the same name and record,  *)
(* with calculate_score calls on another record in between, all on the one *)
(* scoring_engine.  The results of the calls in between are collected in   *)
(* `results`.                                                               *)

\* most calls between the two classifications
MaxBetween == 2

\* self._detect_industry of the revision the engine belongs to
detect_industry(name, data) ==
    IF rev = "api" THEN api_detect_industry(name, data) ELSE main_detect_industry(name, data)

\* what scoring_engine.calculate_score(name, data) may produce: the CompanyScore
\* it returns, or the exception it raises
calculate_score(name, data) ==
    IF rev = "api" THEN CompanyScores(api_score_locals(name, data))
    ELSE UNION {IF outcome.raised THEN {[error |-> outcome.error]} ELSE CompanyScores(outcome.locals) :
                   outcome \in {main_score_outcome(name, data)}}

RepeatRecords ==
    {[EmptyData EXCEPT ![IndustryKey(rev)] = industry, ![DescriptionKey(rev)] = description] :
        industry \in {Absent, StrV(<<"L", "o", "g", "i", "s", "t", "i", "c", "s">>)},
        description \in {Absent, StrV(<<"s", "o", "f", "t", "w", "a", "r", "e", " ", "d", "e", "l", "i", "v", "e", "r", "y">>), StrV(<<"h", "e", "a", "l", "t", "h", "c", "a", "r", "e">>)}}

InitRepeat ==
    /\ rev \in {"api", "main"}
    /\ scoring_engine = YolwiseScoring(rev)
    /\ NoBatch
    /\ company_name \in IndustryNames
    /\ company_data \in RepeatRecords
    /\ other_data \in RepeatRecords
    /\ pc = "called"
    /\ result = NoResult
    /\ other_result = NoResult

\* the first scoring_engine._detect_industry(company_name, company_data)
DetectFirst ==
    /\ pc = "called"
    /\ result' = detect_industry(company_name, company_data)
    /\ pc' = "detected"
    /\ UNCHANGED <<rev, company_name, company_data, other_data, other_result, scoring_engine, batch_vars, frames, http_vars>>

\* a call in between that removes from the table the profile it detected
CalculateScoreBetweenForgetting ==
    /\ pc = "detected" /\ Len(results) < MaxBetween
    /\ \E score \in calculate_score(company_name, other_data) :
          results' = Append(results, score)
    /\ scoring_engine' =
          [scoring_engine EXCEPT !.industry_multipliers =
              SelectSeq(@, LAMBDA p : p.name # detect_industry(company_name, other_data).industry)]
    /\ UNCHANGED <<rev, company_name, company_data, other_data, pc, result, other_result,
                   companies, iteration, summary, frames, http_vars>>

\* a call in between that trims the description of the record it is passed
CalculateScoreBetweenTrimming ==
    /\ pc = "detected" /\ Len(results) < MaxBetween
    /\ \E score \in calculate_score(company_name, other_data) :
          results' = Append(results, score)
    /\ other_data' = [other_data EXCEPT ![DescriptionKey(rev)] =
                         IF @.t = "str" THEN StrV(SubSeq(@.s, 1, Min(Len(@.s), 8))) ELSE @]
    /\ UNCHANGED <<rev, company_name, company_data, pc, result, other_result, scoring_engine,
                   companies, iteration, summary, frames, http_vars>>

\* scoring_engine.calculate_score(company_name, other_data) between the two classifications
CalculateScoreBetween ==
    /\ pc = "detected" /\ Len(results) < MaxBetween
    /\ \E score \in calculate_score(company_name, other_data) :
          results' = Append(results, score)
    /\ UNCHANGED <<rev, company_name, company_data, other_data, pc, result, other_result,
                   scoring_engine, companies, iteration, summary, frames, http_vars>>

\* the second scoring_engine._detect_industry(company_name, company_data)
DetectSecond ==
    /\ pc = "detected"
    /\ other_result' = detect_industry(company_name, company_data)
    /\ pc' = "returned"
    /\ UNCHANGED <<rev, company_name, company_data, other_data, result, scoring_engine, batch_vars, frames, http_vars>>

NextRepeat == DetectFirst \/ CalculateScoreBetween \/ DetectSecond

SpecRepeat == InitRepeat /\ [][NextRepeat]_vars

C19_CalculateScoreFrame ==
    [][Len(results') > Len(results) =>
          /\ scoring_engine' = scoring_engine
          /\ other_data' = other_data
          /\ company_name' = company_name
          /\ \E score \in calculate_score(company_name, other_data) : results' = Append(results, score)
          /\ UNCHANGED <<rev, company_data, result, other_result, http_vars>>]_vars

\* a call of calculate_score on a record with a description has produced its
\* result, and the engine still holds the tables __init__ built
C19_Witness ==
    /\ Len(results) >= 1
    /\ other_data[DescriptionKey(rev)].t = "str"
    /\ scoring_engine = YolwiseScoring(rev)

-----------------------------------------------------------------------------
(* SpecBatch: one request to score_batch.  `companies` is the list of the  *)
(* request, `iteration` the number of list items the loop has consumed,    *)
(* `company_name` the handler's local of that name (a tagged value, Absent *)
(* while the name is unbound), `results` the list the loop appends to and  *)
(* the handler sorts, `summary` the summary of the response.               *)

\* most items in the list of a request
MaxBatch == 3

\* a list item that is a JSON string
StrEntity(text) == [kind |-> "str", name |-> StrV(text), company_name |-> Absent,
                    data_kind |-> "missing", attributes |-> EmptyData]

\* a list item that is a JSON object: the values under 'name' and 'company_name',
\* whether 'data' is missing, an object or something else, and the attributes,
\* which are under 'data' or, when 'data' is missing, in the item itself
DictEntity(name, other_name, data_kind, attributes) ==
    [kind |-> "dict", name |-> name, company_name |-> other_name,
     data_kind |-> data_kind, attributes |-> attributes]

\* a list item that is neither: a number, null, a list
OtherEntity == [kind |-> "other", name |-> Absent, company_name |-> Absent,
                data_kind |-> "missing", attributes |-> EmptyData]

\* "Acme", "Beta", {"name": "Delta Freight", "data": {"Industry": "Logistics",
\* "Number of Employees": 5000}}, {"name": ""}, 7, {"name": 5},
\* {"company_name": "Gamma", "data": "abc"}
ApiEntities ==
    {StrEntity(<<"A", "c", "m", "e">>), StrEntity(<<"B", "e", "t", "a">>),
     DictEntity(StrV(<<"D", "e", "l", "t", "a", " ", "F", "r", "e", "i", "g", "h", "t">>), Absent, "dict",
                [EmptyData EXCEPT !["Industry"] = StrV(<<"L", "o", "g", "i", "s", "t", "i", "c", "s">>), !["Number of Employees"] = IntV(5000)]),
     DictEntity(StrV(<<>>), Absent, "missing", EmptyData),
     OtherEntity,
     DictEntity(IntV(5), Absent, "missing", EmptyData),
     DictEntity(Absent, StrV(<<"G", "a", "m", "m", "a">>), "other", EmptyData)}

\* {"name": "Acme", "company_name": "Acme"}, {"name": "", "company_name": "Beta"},
\* {}, {"name": "Gamma"}, {"name": "Delta", "data": "abc"}
MainEntities ==
    {DictEntity(StrV(<<"A", "c", "m", "e">>), StrV(<<"A", "c", "m", "e">>), "missing", EmptyData),
     DictEntity(StrV(<<>>), StrV(<<"B", "e", "t", "a">>), "missing", EmptyData),
     DictEntity(Absent, Absent, "missing", EmptyData),
     DictEntity(StrV(<<"G", "a", "m", "m", "a">>), Absent, "missing", EmptyData),
     DictEntity(StrV(<<"D", "e", "l", "t", "a">>), Absent, "other", EmptyData)}

\* the lists of at most n items over E
RECURSIVE Lists(_, _)
Lists(E, n) == IF n = 0 THEN {<<>>} ELSE {<<>>} \cup {<<e>> \o l : e \in E, l \in Lists(E, n - 1)}

InitBatch ==
    /\ rev \in {"api", "main"}
    /\ scoring_engine = YolwiseScoring(rev)
    /\ companies \in Lists(IF rev = "api" THEN ApiEntities ELSE MainEntities, MaxBatch)
    /\ results = <<>>
    /\ iteration = 0
    /\ summary = NoResult
    /\ request = NoResult
    /\ response = NoResult
    /\ frames = <<>>
    /\ company_name = Absent
    /\ company_data = EmptyData
    /\ other_data = EmptyData
    /\ pc = "called"
    /\ result = NoResult
    /\ other_result = NoResult

\* `if not isinstance(companies, list) or not companies: abort(400, ...)`; in main.py
\* validate.Length(min=1, max=100) of BatchCompanySchema
RejectBatch ==
    /\ pc = "called" /\ companies = <<>>
    /\ pc' = "rejected"
    /\ UNCHANGED <<rev, company_name, company_data, other_data, result, other_result,
                   scoring_engine, batch_vars, frames, http_vars>>

\* `results = []` and the entry of the loop
EnterLoop ==
    /\ pc = "called" /\ companies # <<>>
    /\ pc' = "loop"
    /\ UNCHANGED <<rev, company_name, company_data, other_data, result, other_result,
                   scoring_engine, batch_vars, frames, http_vars>>

\* company_info.get('name', company_info.get('company_name', '')), or the string itself
entity_name(company_info) ==
    IF company_info.kind = "str" THEN company_info.name
    ELSE IF company_info.name # Absent THEN company_info.name
    ELSE IF company_info.company_name # Absent THEN company_info.company_name
    ELSE StrV(<<>>)

\* company_info.get('data', company_info) where it is a dict, {} for a string
entity_data(company_info) ==
    IF company_info.kind = "dict" /\ company_info.data_kind = "missing" /\ rev = "main"
    THEN [company_info.attributes EXCEPT !["company_name"] = company_info.company_name]
    ELSE company_info.attributes

\* the item is neither a string nor a dict: `else: continue`
not_str_or_dict(company_info) == company_info.kind = "other"

\* main.py: sanitising the description or company_schema.load(company_data_raw)
\* raises: the value under 'data' is no dict (TypeError), or the required
\* company_name is missing from the data or is not a string of 1 to 200 characters
main_validation_raises(company_info) ==
    /\ rev = "main" /\ company_info.kind = "dict"
    /\ \/ company_info.data_kind = "other"
       \/ entity_data(company_info)["company_name"].t # "str"
       \/ Len(entity_data(company_info)["company_name"].s) \notin 1..200

\* scoring_engine.calculate_score raises: the name has no .lower() or the data no
\* .get(); in main.py, whatever it is passed
scoring_raises(company_info) ==
    \/ entity_name(company_info).t # "str"
    \/ company_info.data_kind = "other"
    \/ rev = "main"

\* the value of the local company_name when the except clause runs, had the name
\* been assigned after the statements that raise
name_before_assignment(assigned, previous) == previous

\* the value of the local company_name when the except clause runs: it was assigned
\* in this iteration before any statement that can raise
name_at_except(assigned, previous) == assigned

\* the dict of the except clause
error_placeholder(name) ==
    [company_name |-> IF name # Absent THEN name ELSE StrV(<<"U", "n", "k", "n", "o", "w", "n">>),
     base_score |-> 0, final_score |-> 0, priority_recommendation |-> "error", error |-> TRUE]

\* the dict appended for a CompanyScore
result_entry(score) ==
    [company_name |-> StrV(score.company_name),
     base_score |-> score.base_score, final_score |-> score.final_score,
     priority_recommendation |-> score.priority_recommendation, error |-> FALSE]

\* what one iteration of the loop appends to results: nothing, the entry of a
\* score, or the placeholder of the except clause
iteration_entries(company_info, previous) ==
    IF not_str_or_dict(company_info) THEN {<<>>}
    ELSE IF main_validation_raises(company_info)
         THEN {<<error_placeholder(name_at_except(entity_name(company_info), previous))>>}
    ELSE IF ~Truthy(entity_name(company_info)) THEN {<<>>}
    ELSE IF scoring_raises(company_info)
         THEN {<<error_placeholder(name_at_except(entity_name(company_info), previous))>>}
    ELSE {<<result_entry(score)>> :
             score \in CompanyScores(api_score_locals(entity_name(company_info).s, entity_data(company_info)))}

\* one iteration of `for company_info in companies:`, its try and its except
ProcessCompany ==
    /\ pc = "loop" /\ iteration < Len(companies)
    /\ iteration' = iteration + 1
    /\ \E entries \in iteration_entries(companies[iteration + 1], company_name) :
          results' = results \o entries
    /\ company_name' = IF not_str_or_dict(companies[iteration + 1]) THEN company_name
                       ELSE entity_name(companies[iteration + 1])
    /\ UNCHANGED <<rev, company_data, other_data, pc, result, other_result, scoring_engine,
                   companies, summary, frames, http_vars>>

\* an insertion that puts x in front of the entries that equal it
RECURSIVE insert_descending_unstable(_, _)
insert_descending_unstable(sorted, x) ==
    IF sorted = <<>> THEN <<x>>
    ELSE IF Head(sorted).final_score > x.final_score
         THEN <<Head(sorted)>> \o insert_descending_unstable(Tail(sorted), x)
         ELSE <<x>> \o sorted

\* list.sort(key=final_score, reverse=True) as an insertion sort: x goes behind
\* every entry whose final_score is at least its own, so equal entries keep their order
RECURSIVE insert_descending(_, _)
insert_descending(sorted, x) ==
    IF sorted = <<>> THEN <<x>>
    ELSE IF Head(sorted).final_score >= x.final_score
         THEN <<Head(sorted)>> \o insert_descending(Tail(sorted), x)
         ELSE <<x>> \o sorted

RECURSIVE sort_by_final_score(_)
sort_by_final_score(list) ==
    IF list = <<>> THEN <<>>
    ELSE insert_descending(sort_by_final_score(SubSeq(list, 1, Len(list) - 1)), list[Len(list)])

\* [r for r in results if r.get('priority_recommendation') == 'target']
targets(list) == SelectSeq(list, LAMBDA r : r.priority_recommendation = "target")

\* the [:10] of top_targets
TopTargets == 10

\* the 'summary' of the response
batch_summary(list) ==
    [total_companies |-> Len(list),
     target_recommendations |-> Len(targets(list)),
     non_target_recommendations |-> Len(list) - Len(targets(list)),
     top_targets |-> SubSeq(targets(list), 1, Min(TopTargets, Len(targets(list))))]

\* the end of the handler: results.sort(...), the statistics and the response
FinishBatch ==
    /\ pc = "loop" /\ iteration = Len(companies)
    /\ results' = sort_by_final_score(results)
    /\ summary' = batch_summary(sort_by_final_score(results))
    /\ pc' = "returned"
    /\ UNCHANGED <<rev, company_name, company_data, other_data, result, other_result, scoring_engine,
                   companies, iteration, frames, http_vars>>

NextBatch == RejectBatch \/ EnterLoop \/ ProcessCompany \/ FinishBatch

SpecBatch == InitBatch /\ [][NextBatch]_vars

-----------------------------------------------------------------------------
(* Claims checked under SpecBatch *)

\* validating or scoring the item raises
Faulted(company_info) ==
    /\ ~not_str_or_dict(company_info)
    /\ \/ main_validation_raises(company_info)
       \/ Truthy(entity_name(company_info)) /\ scoring_raises(company_info)

\* the item carries a name: it is a string, or has a 'name' or a 'company_name'
NameKnown(company_info) ==
    company_info.kind = "str" \/ company_info.name # Absent \/ company_info.company_name # Absent

\* the entry is the error placeholder of the item
PlaceholderOf(entry, company_info) ==
    /\ entry.error /\ entry.priority_recommendation = "error"
    /\ entry.base_score = 0 /\ entry.final_score = 0
    /\ IF NameKnown(company_info)
       THEN entry.company_name = entity_name(company_info)
       ELSE entry.company_name \in {StrV(<<>>), StrV(<<"U", "n", "k", "n", "o", "w", "n">>)}

\* C14: in score_batch, a fault while validating or scoring one entity never
\* aborts the batch: the iteration appends an error placeholder carrying the
\* entity's own name (never the name of an earlier entity; the sentinel 'Unknown'
\* only if no name is known), the loop goes on, and the handler returns only
\* after every entity of the input was processed.
C14_FaultGetsOwnPlaceholder ==
    [][/\ (pc = "loop" /\ iteration' = iteration + 1 /\ Faulted(companies[iteration + 1])) =>
             /\ pc' = "loop"
             /\ Len(results') = Len(results) + 1
             /\ SubSeq(results', 1, Len(results)) = results
             /\ PlaceholderOf(results'[Len(results')], companies[iteration + 1])
       /\ pc' = "returned" => iteration = Len(companies)]_vars

\* a batch has returned in which a faulting entity came after an entity of another
\* name and before an entity that was scored
C14_Witness ==
    /\ pc = "returned" /\ Len(companies) = 3 /\ Len(results) = 3
    /\ ~Faulted(companies[1]) /\ Faulted(companies[2]) /\ ~Faulted(companies[3])
    /\ entity_name(companies[1]) # entity_name(companies[2])
    /\ \E i \in 1..3 : PlaceholderOf(results[i], companies[2])

\* the entry belongs to the item: it carries the item's name
BelongsTo(entry, company_info) ==
    company_info.kind # "other" /\ entry.company_name = entity_name(company_info)

\* C15: batch scoring yields exactly one entry (a score result or an error
\* marker) per input entity, and before the sort the entries are in input order:
\* entry i of the unsorted results belongs to input entity i.
C15_OneEntryPerEntityInOrder ==
    pc = "loop" =>
        /\ Len(results) = iteration
        /\ \A i \in 1..Len(results) : BelongsTo(results[i], companies[i])

\* out is list in another order, entries of equal final_score in the order of list
StablePermutation(out, list) ==
    /\ Len(out) = Len(list)
    /\ \E p \in [1..Len(list) -> 1..Len(list)] :
          /\ \A i, j \in 1..Len(list) : i # j => p[i] # p[j]
          /\ \A i \in 1..Len(list) : out[i] = list[p[i]]
          /\ \A i, j \in 1..Len(list) :
                (i < j /\ out[i].final_score = out[j].final_score) => p[i] < p[j]

\* C16: the results list returned by score_batch is ordered by final_score
\* descending (no entry has a higher final_score than an entry before it),
\* entries with equal final_score keep their relative input order, and error
\* markers (final_score 0) never precede an entry with a positive final_score.
C16_SortedDescendingStable ==
    [][pc' = "returned" =>
          /\ \A i, j \in 1..Len(results') : i < j => results'[i].final_score >= results'[j].final_score
          /\ StablePermutation(results', results)
          /\ \A i, j \in 1..Len(results') :
                (i < j /\ results'[i].error) => ~(results'[j].final_score > 0)]_vars

\* a returned batch whose first item faulted and whose next two items got the same
\* final_score under different names: the two precede the error marker, in input order
C16_Witness ==
    /\ pc = "returned" /\ Len(companies) = 3 /\ Len(results) = 3
    /\ Faulted(companies[1])
    /\ results[1].final_score = results[2].final_score /\ results[1].final_score > 0
    /\ results[1].company_name = entity_name(companies[2])
    /\ results[2].company_name = entity_name(companies[3])
    /\ results[1].company_name # results[2].company_name
    /\ results[3].error

\* the number of entries of the list with the priority label
CountPriority(list, label) == Len(SelectSeq(list, LAMBDA r : r.priority_recommendation = label))

\* C17: in every score_batch summary, target_recommendations equals the number
\* of results whose priority_recommendation is "target",
\* non_target_recommendations equals the number of results whose
\* priority_recommendation is "non_target", and top_targets holds the first (at
\* most 10) target results of the sorted list.
C17_SummaryCounts ==
    pc = "returned" =>
        /\ summary.target_recommendations = CountPriority(results, "target")
        /\ summary.non_target_recommendations = CountPriority(results, "non_target")
        /\ Len(summary.top_targets) <= 10
        /\ summary.top_targets = SubSeq(targets(results), 1, Len(summary.top_targets))
        /\ Len(summary.top_targets) = Min(10, CountPriority(results, "target"))

-----------------------------------------------------------------------------
(* SpecThreads: two request threads of the threaded server on the one      *)
(* scoring_engine.  Thread 1 handles a single-entity request, thread 2 the *)
(* loop of a batch; each call of calculate_score advances in three steps,  *)
(* and the steps of the two threads interleave freely.  frames[t] is the   *)
(* frame of thread t: where it is in the call, the local variables of the  *)
(* call, the calls it has completed and their results.                     *)

Threads == {1, 2}

\* the calls the batch loop of thread 2 makes
MaxThreadCalls == 2

Calls(t) == IF t = 1 THEN 1 ELSE MaxThreadCalls

\* the record thread t scores
thread_data(t) == IF t = 1 THEN company_data ELSE other_data

\* the local variables kept in one place for all threads, as attributes of the engine
frame_on_engine(t) == 1

\* the frame that holds the local variables of the call of thread t: its own
frame_of(t) == t

\* the records the batch of thread 2 is made of
BatchRecords == {EmptyData, [EmptyData EXCEPT ![IndustryKey(rev)] = StrV(<<"L", "o", "g", "i", "s", "t", "i", "c", "s">>)]}

NoLocals ==
    [base_components |-> <<>>, base_score |-> 0,
     detected |-> [industry |-> "", multiplier |-> 0, confidence |-> ""],
     industry_adjusted_score |-> 0]

InitThreads ==
    /\ rev \in {"api", "main"}
    /\ scoring_engine = YolwiseScoring(rev)
    /\ companies = <<>>
    /\ results = <<>>
    /\ iteration = 0
    /\ summary = NoResult
    /\ request = NoResult
    /\ response = NoResult
    /\ company_name \in IndustryNames
    /\ company_data \in RepeatRecords
    /\ other_data \in BatchRecords
    /\ frames = [t \in Threads |-> [pc |-> "called", locals |-> NoLocals, done |-> 0,
                                    results |-> <<>>, overlapped |-> FALSE]]
    /\ pc = "called"
    /\ result = NoResult
    /\ other_result = NoResult

\* another thread is inside calculate_score
OtherInside(t) == \E u \in Threads \ {t} : frames[u].pc # "called"

\* self._calculate_base_components(company_data): the component scores, or the
\* exception it raises in main.py
thread_base_components(t) ==
    IF rev = "api"
    THEN [raised |-> FALSE, error |-> "", components |-> api_calculate_base_components(thread_data(t))]
    ELSE main_calculate_base_components(thread_data(t))

\* Layer 1: base_components and base_score
ThreadBase(t) ==
    /\ frames[t].pc = "called" /\ frames[t].done < Calls(t)
    /\ \E base \in {thread_base_components(t)} :
          frames' =
             IF base.raised
             THEN [frames EXCEPT ![t].done = @ + 1,
                                 ![t].results = Append(@, [error |-> base.error]),
                                 ![t].overlapped = @ \/ OtherInside(t)]
             ELSE [frames EXCEPT ![frame_of(t)].locals =
                                     [@ EXCEPT !.base_components = base.components,
                                               !.base_score = Clamp(weighted_sum(base.components,
                                                                  scoring_engine.scoring_weights), 0, 10000)],
                                 ![t].pc = "base",
                                 ![t].overlapped = @ \/ OtherInside(t)]
    /\ UNCHANGED <<rev, company_name, company_data, other_data, pc, result, other_result,
                   scoring_engine, batch_vars, http_vars>>

\* Layer 2: _detect_industry and industry_adjusted_score
ThreadDetect(t) ==
    /\ frames[t].pc = "base"
    /\ \E detected \in {detect_industry(company_name, thread_data(t))} :
          frames' = [frames EXCEPT ![frame_of(t)].locals =
                                       [@ EXCEPT !.detected = detected,
                                                 !.industry_adjusted_score =
                                                     Clamp(frames[frame_of(t)].locals.base_score * detected.multiplier,
                                                           0, 1000000)],
                                   ![t].pc = "industry",
                                   ![t].overlapped = @ \/ OtherInside(t)]
    /\ UNCHANGED <<rev, company_name, company_data, other_data, pc, result, other_result,
                   scoring_engine, batch_vars, http_vars>>

\* Layer 3 and the rest of calculate_score, from the local variables of the call
thread_score_locals(name, data, locals) ==
    [company_name |-> name,
     base_score |-> locals.base_score,
     industry_multiplier |-> locals.detected.multiplier,
     industry_adjusted_score |-> locals.industry_adjusted_score,
     llm_adjustment |-> api_calculate_llm_adjustment(data, locals.industry_adjusted_score),
     final_score |-> Clamp(locals.industry_adjusted_score
                           + api_calculate_llm_adjustment(data, locals.industry_adjusted_score) * 10000,
                           0, 1000000),
     detected_industry |-> locals.detected.industry,
     industry_confidence |-> locals.detected.confidence,
     priority_recommendation |->
         api_priority(Clamp(locals.industry_adjusted_score
                            + api_calculate_llm_adjustment(data, locals.industry_adjusted_score) * 10000,
                            0, 1000000)),
     reasoning |->
         api_generate_reasoning(data, locals.detected.industry,
                                Clamp(locals.industry_adjusted_score
                                      + api_calculate_llm_adjustment(data, locals.industry_adjusted_score) * 10000,
                                      0, 1000000)),
     score_breakdown |-> locals.base_components]

\* Layer 3, the priority, the reasoning and `return CompanyScore(...)`
ThreadFinish(t) ==
    /\ frames[t].pc = "industry"
    /\ \E score \in CompanyScores(thread_score_locals(company_name, thread_data(t),
                                                      frames[frame_of(t)].locals)) :
          frames' = [frames EXCEPT ![t].pc = "called",
                                   ![t].done = @ + 1,
                                   ![t].results = Append(@, score),
                                   ![t].overlapped = @ \/ OtherInside(t)]
    /\ UNCHANGED <<rev, company_name, company_data, other_data, pc, result, other_result,
                   scoring_engine, batch_vars, http_vars>>

NextThreads == \E t \in Threads : ThreadBase(t) \/ ThreadDetect(t) \/ ThreadFinish(t)

SpecThreads == InitThreads /\ [][NextThreads]_vars

\* C18: concurrent invocations on the single shared scoring_engine (a
\* single-entity call and a batch loop running on different threads) are safe
\* without locking: under every interleaving, each call returns a result it
\* returns when run alone.
C18_InterleavedAsAlone ==
    \A t \in Threads : \A i \in 1..Len(frames[t].results) :
        frames[t].results[i] \in calculate_score(company_name, thread_data(t))

\* both threads have finished, their calls overlapped, and the two records got
\* different results
C18_Witness ==
    /\ rev = "api"
    /\ \A t \in Threads : frames[t].done = Calls(t) /\ frames[t].overlapped
    /\ frames[1].results[1] # frames[2].results[1]
    /\ frames[1].results[1].final_score > 0

-----------------------------------------------------------------------------
(* Claims on the layers of calculate_score, checked under Spec *)

\* the base score, in Cent, that the component scores of a result add up to
BaseOf(score) == Clamp(weighted_sum(score.score_breakdown, scoring_engine.scoring_weights), 0, 10000)

\* clamp(base_score x multiplier, 0, 100), in Myr
IndustryAdjustedOf(score) == Clamp(BaseOf(score) * score.industry_multiplier, 0, 1000000)

\* C21: for every record, industry_adjusted_score = clamp(base_score x multiplier,
\* 0, 100) and final_score = clamp(industry_adjusted_score + adjustment, 0, 100),
\* where multiplier is the one returned by the industry classifier for the same
\* call and the adjustment is applied after the industry clamp; the result
\* reports each of the two scores rounded to one decimal.
C21_LayersComposeWithClamps ==
    Returned =>
        /\ result.industry_multiplier = detect_industry(company_name, company_data).multiplier
        /\ \E up \in BOOLEAN :
              result.industry_adjusted_score = round1(IndustryAdjustedOf(result), up)
        /\ \E up \in BOOLEAN :
              result.final_score =
                  round1(Clamp(IndustryAdjustedOf(result) + result.llm_adjustment * 10000, 0, 1000000), up)

\* a result whose base score times the multiplier exceeds 100 and whose
\* adjustment is positive: both clamps act
C21_Witness ==
    /\ Returned
    /\ BaseOf(result) * result.industry_multiplier > 1000000
    /\ result.llm_adjustment > 0
    /\ result.industry_adjusted_score = 1000 /\ result.final_score = 1000

-----------------------------------------------------------------------------
(* SpecRequest: one HTTP request to /score_company or /score_batch.  The   *)
(* request carries the X-API-Key header, the api_key query argument and    *)
(* the JSON body; expected_key is the YOLWISE_API_KEY of the environment.  *)
(* RequireApiKey is decorated_function up to its call of the handler f,    *)
(* ScoreCompany the body of score_company; a /score_batch request that     *)
(* passes the gate goes on with the steps of score_batch.  `result` holds  *)
(* what scoring_engine.calculate_score produced, `response` the status of  *)
(* the response.                                                           *)

\* the characters of the alphabet outside ASCII
NonAsciiChars == {UpperChars[i] : i \in 27..Len(UpperChars)} \cup {LowerChars[i] : i \in 27..Len(LowerChars)}

\* secrets.compare_digest(a, b) on two str raises TypeError unless both are ASCII
compare_digest_raises(a, b) == \E i \in 1..Len(a) : a[i] \in NonAsciiChars

\* a response with the status code: jsonify(...), code / the error handlers of main.py
Response(code) == [status |-> code, success |-> code = 200]

\* request.headers.get('X-API-Key') or request.args.get('api_key')
client_api_key(req) == IF Truthy(req.x_api_key) THEN req.x_api_key ELSE req.args_api_key

HeaderKeys == {Absent, StrV(<<>>), StrV(<<"s", "e", "c", "r", "e", "t">>), StrV(<<"g", "u", "e", "s", "s">>)}

QueryKeys == {Absent, StrV(<<"s", "e", "c", "r", "e", "t">>), StrV(<<"U+015F", "i", "f", "r", "e">>)}

ServerKeys == {Absent, StrV(<<>>), StrV(<<"s", "e", "c", "r", "e", "t">>)}

RequestNames == {Absent, NoneV, StrV(<<>>), StrV(<<"A", "c", "m", "e">>)}

RequestData == {EmptyData, [EmptyData EXCEPT !["company_name"] = StrV(<<"A", "c", "m", "e">>)]}

InitRequest ==
    /\ rev \in {"api", "main"}
    /\ scoring_engine = YolwiseScoring(rev)
    /\ request \in [endpoint : {"score_company", "score_batch"},
                    x_api_key : HeaderKeys, args_api_key : QueryKeys,
                    expected_key : ServerKeys]
    /\ IF request.endpoint = "score_company"
       THEN /\ company_name \in RequestNames
            /\ company_data \in RequestData
            /\ companies = <<>>
       ELSE /\ company_name = Absent
            /\ company_data = EmptyData
            /\ companies \in Lists(IF rev = "api" THEN ApiEntities ELSE MainEntities, 1)
    /\ response = NoResult
    /\ results = <<>>
    /\ iteration = 0
    /\ summary = NoResult
    /\ frames = <<>>
    /\ other_data = EmptyData
    /\ pc = "received"
    /\ result = NoResult
    /\ other_result = NoResult

\* what decorated_function does before it calls f: a status code, "pass" where f is
\* called; in main.py the YolwiseAPIError goes to handle_api_error and the
\* TypeError of compare_digest to handle_unexpected_error
api_require_api_key(req) ==
    IF ~Truthy(req.expected_key) THEN "500"
    ELSE IF ~Truthy(client_api_key(req)) \/ client_api_key(req) # req.expected_key THEN "401"
    ELSE "pass"

main_require_api_key(req) ==
    IF ~Truthy(req.expected_key) THEN "500"
    ELSE IF ~Truthy(client_api_key(req)) THEN "401"
    ELSE IF compare_digest_raises(client_api_key(req).s, req.expected_key.s) THEN "500"
    ELSE IF client_api_key(req) # req.expected_key THEN "401"
    ELSE "pass"

require_api_key(req) == IF rev = "api" THEN api_require_api_key(req) ELSE main_require_api_key(req)

StatusOf(code) == IF code = "500" THEN 500 ELSE 401

RequireApiKey ==
    /\ pc = "received"
    /\ \E gate \in {require_api_key(request)} :
          IF gate = "pass"
          THEN /\ pc' = (IF request.endpoint = "score_company" THEN "authenticated" ELSE "called")
               /\ UNCHANGED response
          ELSE /\ pc' = "responded"
               /\ response' = Response(StatusOf(gate))
    /\ UNCHANGED <<rev, company_name, company_data, other_data, result, other_result,
                   scoring_engine, batch_vars, frames, request>>

\* main.py: company_schema.load(company_data_raw) raises ValidationError
company_schema_rejects(data) ==
    \/ data["company_name"].t # "str"
    \/ Len(data["company_name"].s) \notin 1..200

\* the status of the response to a request without a company_name: the
\* abort(400) of yolwise_scoring_api.py is raised inside `try` and caught by
\* `except Exception`, which answers 500; main.py re-raises its YolwiseAPIError
\* to handle_api_error, which answers with its status_code
name_required_status == IF rev = "api" THEN 500 ELSE 400

\* the body of score_company
ScoreCompany ==
    /\ pc = "authenticated"
    /\ pc' = "responded"
    /\ IF ~Truthy(company_name)
       THEN /\ response' = Response(name_required_status)
            /\ UNCHANGED result
       ELSE IF rev = "main" /\ company_schema_rejects(company_data)
       THEN /\ response' = Response(400)
            /\ UNCHANGED result
       ELSE \E outcome \in calculate_score(company_name.s, company_data) :
               /\ result' = outcome
               /\ response' = Response(IF "error" \in DOMAIN outcome THEN 500 ELSE 200)
    /\ UNCHANGED <<rev, company_name, company_data, other_data, other_result,
                   scoring_engine, batch_vars, frames, request>>

NextRequest == RequireApiKey \/ ScoreCompany \/ RejectBatch \/ EnterLoop \/ ProcessCompany \/ FinishBatch

SpecRequest == InitRequest /\ [][NextRequest]_vars

\* the request passed the gate: decorated_function called the handler
Authenticated == pc \notin {"received"} /\ require_api_key(request) = "pass"

\* C22: an authenticated score_company request whose company_name is missing
\* or empty is answered with status 400, and calculate_score was not called
C22_MissingNameIs400 ==
    (pc = "responded" /\ request.endpoint = "score_company" /\ Authenticated /\ ~Truthy(company_name))
        => response.status = 400 /\ result = NoResult

\* calculate_score was called for the request
EngineInvoked == result # NoResult \/ results # <<>> \/ iteration > 0

\* C29: without a configured server key the response is 500; with one, a
\* missing or different client key is answered 401; in both cases
\* calculate_score is never called for the request
C29_GateBeforeEngine ==
    /\ (pc # "received" /\ ~Truthy(request.expected_key))
          => response # NoResult /\ response.status = 500 /\ ~EngineInvoked
    /\ (pc # "received" /\ Truthy(request.expected_key)
           /\ (~Truthy(client_api_key(request)) \/ client_api_key(request) # request.expected_key))
          => response # NoResult /\ response.status = 401 /\ ~EngineInvoked

-----------------------------------------------------------------------------
(* Claims on the keyword score of _detect_industry, under SpecIndustry.    *)

\* the weight of a matched keyword as documented: twice its length when it is
\* longer than five characters, its length otherwise
DocumentedWeight(keyword) == Len(keyword) * (IF Len(keyword) > 5 THEN 2 ELSE 1)

\* the documented match score of profile i on the matched text
DocumentedScore(i) ==
    SumSeq([j \in 1..Len(Profiles[i].keywords) |->
              IF Contains(Profiles[i].keywords[j], MatchedText)
              THEN DocumentedWeight(Profiles[i].keywords[j]) ELSE 0])

\* C23: the match score _detect_industry accumulates for a profile is the sum,
\* over the profile's keywords contained in the search text, of the keyword's
\* length, doubled when the keyword is longer than five characters
C23_LongKeywordsCountTwice ==
    Returned => \A i \in 1..Len(Profiles) : ProfileScore(i) = DocumentedScore(i)

-----------------------------------------------------------------------------
(* Claims on _evaluate_company_size and _evaluate_geographic_presence,     *)
(* under SpecMonotone: the evaluators on two records.                      *)

\* the employee count the size evaluator extracts from the record
employees_of(data) ==
    IF rev = "api"
    THEN api_extract_number(str(get(data, "Number of Employees", get(data, "employees_estimate", IntV(0)))))
    ELSE main_extract_number_enhanced(get(data, "number_of_employees", get(data, "employees_estimate", IntV(0))))

\* the Company Size score of a result
SizeScore(r) == IF rev = "api" THEN r.score_breakdown[1] ELSE r.company_size

\* the documented employee bonus of a count
EmployeeBonus(count) ==
    IF count >= 5000 THEN 30
    ELSE IF count >= 1000 THEN 25
    ELSE IF count >= 200 THEN 15
    ELSE IF count >= 50 THEN 10
    ELSE IF count >= 1 THEN 5 ELSE 0

\* the bonuses of the five revenue brackets of the revision, best bracket first
RevenueBonuses == IF rev = "api" THEN <<25, 20, 10, 5, 3>> ELSE <<25, 20, 15, 10, 3>>

\* the Company Size score of the record is 30 + employee bonus + revenue bonus
SizeScoreAsDocumented(data, r) ==
    /\ SizeScore(r) - 30 - EmployeeBonus(employees_of(data)) \in {0} \cup {RevenueBonuses[i] : i \in 1..5}
    /\ SizeScore(r) \in 30..85
    /\ (employees_of(data) >= 5000 /\ SizeScore(r) - 60 = RevenueBonuses[1]) => SizeScore(r) = 85

city_of(data) ==
    IF rev = "api" THEN lower(str(get(data, "City", StrV(<<>>))))
    ELSE lower(str(get(data, "city", get(data, "headquarters", StrV(<<>>)))))

\* the Geographic Presence score of a result
GeographicScore(r) == IF rev = "api" THEN r.score_breakdown[4] ELSE r.geographic_presence

\* the tiers in their documented order; 'other' is the tier of every city
TierOrder == <<"tier_1_cities", "tier_2_cities", "tier_3_cities", "industrial_regions", "other_cities">>

\* the bonus of each tier of TierOrder (yolwise_scoring_api.py has no tier 3)
TierBonuses == IF rev = "api" THEN <<25, 15, 0, 10, 5>> ELSE <<25, 20, 15, 18, 8>>

\* the city matches the tier: it is an entry of the tier's list
\* (yolwise_scoring_api.py), an entry of the list is part of it (main.py)
TierMatches(tier, city) ==
    \/ tier = "other_cities"
    \/ /\ tier \in DOMAIN scoring_engine.city_tiers
       /\ \E i \in 1..Len(scoring_engine.city_tiers[tier]) :
             IF rev = "api" THEN scoring_engine.city_tiers[tier][i] = city
             ELSE Contains(scoring_engine.city_tiers[tier][i], city)

\* the position in TierOrder of the earliest tier the city matches
FirstTier(city) == CHOOSE t \in 1..5 : TierMatches(TierOrder[t], city) /\ \A u \in 1..(t - 1) : ~TierMatches(TierOrder[u], city)

\* the score holds the base of 50, the bonus of the earliest matching tier and
\* nothing else but the bonus of 15 for international presence
OneTierBonus(data, r) == GeographicScore(r) - 50 - TierBonuses[FirstTier(city_of(data))] \in {0, 15}

\* C25: the Geographic Presence evaluator adds exactly one tier bonus: that of
\* the first tier, in the order tier_1, tier_2, tier_3, industrial, other, the
\* lower-cased city matches; a city matching several tiers gets the earliest
\* tier's bonus only, a city matching none the 'other' bonus
C25_EarliestTierBonusOnly ==
    Returned => OneTierBonus(company_data, result) /\ OneTierBonus(other_data, other_result)

\* a city that matches two tiers got the bonus of the earlier of them
C25_Witness ==
    /\ Returned
    /\ Cardinality({t \in 1..4 : TierMatches(TierOrder[t], city_of(company_data))}) = 2
    /\ GeographicScore(result) = 50 + TierBonuses[FirstTier(city_of(company_data))]

-----------------------------------------------------------------------------
(* SpecReasoning: the end of calculate_score, from the final_score it has  *)
(* computed to the result: the priority recommendation and the reasoning.  *)
(* frames[1] holds the local variables final_score (in Myr) and industry   *)
(* of the call.  In main.py these lines are only reached through this      *)
(* specification: calculate_score raises before them.                      *)

\* final scores at and next to every cutoff of the two revisions
FinalScores == {0, 599999, 600000, 699999, 700000, 799999, 800000, 849999, 850000, 1000000}

\* records with an employee count under the field name, under the fallback
\* field name, under both or under neither, and a city
ReasoningRecords ==
    {[EmptyData EXCEPT ![EmployeesKey(rev)] = employees, !["employees_estimate"] = estimate, ![CityKey(rev)] = city] :
        employees \in {Absent, IntV(60), StrV(<<"2", "5", "0">>), IntV(6000)},
        estimate \in {Absent, IntV(60), IntV(1200)},
        city \in {Absent, StrV(<<"I", "s", "t", "a", "n", "b", "u", "l">>)}}

InitReasoning ==
    /\ rev \in {"api", "main"}
    /\ scoring_engine = YolwiseScoring(rev)
    /\ companies = <<>>
    /\ results = <<>>
    /\ iteration = 0
    /\ summary = NoResult
    /\ request = NoResult
    /\ response = NoResult
    /\ company_name \in Names
    /\ company_data \in ReasoningRecords
    /\ other_data = EmptyData
    /\ \E final_score \in FinalScores :
          frames = <<[final_score |-> final_score,
                      industry |-> detect_industry(company_name, company_data).industry]>>
    /\ pc = "called"
    /\ result = NoResult
    /\ other_result = NoResult

\* "target" if final_score >= 60 else "non_target"
priority(final_score) == IF rev = "api" THEN api_priority(final_score) ELSE main_priority(final_score)

\* self._generate_reasoning(company_data, industry, final_score)
generate_reasoning(data, industry, final_score) ==
    IF rev = "api" THEN api_generate_reasoning(data, industry, final_score)
    ELSE main_generate_reasoning(data, industry, final_score)

\* priority_recommendation, reasoning and the CompanyScore that is returned
ExplainScore ==
    /\ pc = "called"
    /\ pc' = "returned"
    /\ result' = [final_score |-> frames[1].final_score,
                  priority_recommendation |-> priority(frames[1].final_score),
                  reasoning |-> generate_reasoning(company_data, frames[1].industry, frames[1].final_score)]
    /\ UNCHANGED <<rev, company_name, company_data, other_data, other_result,
                   scoring_engine, batch_vars, frames, http_vars>>

NextReasoning == ExplainScore

SpecReasoning == InitReasoning /\ [][NextReasoning]_vars

\* the score-tier labels of the reasoning
TierLabels ==
    {"High-confidence target", "Strong target candidate", "Qualified target candidate", "Below target threshold"}

\* the phrases of a reasoning that are among the labels L
PhrasesIn(reasoning, L) == {i \in 1..Len(reasoning) : reasoning[i] \in L}

\* C26: every final score gets exactly one score-tier label in the reasoning,
\* and the label is "Below target threshold" exactly when the result's
\* priority_recommendation is "non_target"
C26_OneTierLabelMatchingPriority ==
    Returned =>
        /\ Cardinality(PhrasesIn(result.reasoning, TierLabels)) = 1
        /\ PhrasesIn(result.reasoning, {"Below target threshold"}) # {}
              <=> result.priority_recommendation = "non_target"

\* a score just under the target threshold is labelled below it, one on it is not
C26_Witness ==
    /\ Returned
    /\ result.final_score = 599999
    /\ result.reasoning[1] = "Below target threshold"
    /\ result.priority_recommendation = "non_target"

\* the employee-size descriptors of the reasoning
SizeLabels == {"Large enterprise", "Medium-large company", "Medium company"}

\* the descriptor documented for an employee count
SizeLabelOf(count) ==
    IF count >= 1000 THEN {"Large enterprise"}
    ELSE IF count >= 200 THEN {"Medium-large company"}
    ELSE IF count >= 50 THEN {"Medium company"} ELSE {}

\* C27: the employee-size descriptor of the reasoning ("Large enterprise" from
\* 1000, "Medium-large company" from 200, "Medium company" from 50) is that of
\* the employee count the Company Size evaluator scored, also for a record
\* that has the count under the fallback field name only
C27_DescriptorOfTheScoredCount ==
    Returned =>
        {result.reasoning[i] : i \in PhrasesIn(result.reasoning, SizeLabels)} = SizeLabelOf(employees_of(company_data))

-----------------------------------------------------------------------------
(* SpecExtract: the number extraction of the Company Size evaluator         *)
(* (_extract_number, _extract_number_enhanced) on one employee-count value. *)

\* the number a count is written with, the space after it and the word that follows
NumberTexts == {<<>>, <<"5">>, <<"2", "5", "0">>, <<"1", ".", "5">>, <<"1", "5", "0", "0">>}
Separators == {<<>>, <<" ">>}
UnitWords == {<<>>, <<"k">>, <<"b", "i", "n">>, <<"m">>, <<"m", "i", "l", "y", "o", "n">>, <<"w", "o", "r", "k", "e", "r", "s">>, <<"e", "m", "p", "l", "o", "y", "e", "e", "s">>, <<"s", "t", "a", "f", "f">>}

\* the values of the employee-count field: numbers, None, and texts
ExtractInputs ==
    {IntV(-5), IntV(0), IntV(250), FloatV(1200, 500), NoneV}
        \cup {StrV(number \o space \o word) : number \in NumberTexts, space \in Separators, word \in UnitWords}

InitExtract ==
    /\ rev \in {"api", "main"}
    /\ scoring_engine = YolwiseScoring(rev)
    /\ NoBatch
    /\ company_name \in Names
    /\ \E text \in ExtractInputs : company_data = [EmptyData EXCEPT ![EmployeesKey(rev)] = text]
    /\ other_data = EmptyData
    /\ pc = "called"
    /\ result = NoResult
    /\ other_result = NoResult

\* employees = self._extract_number(...) / self._extract_number_enhanced(...)
ExtractNumber ==
    /\ pc = "called"
    /\ pc' = "returned"
    /\ result' = [employees |-> employees_of(company_data)]
    /\ UNCHANGED <<rev, company_name, company_data, other_data, other_result,
                   scoring_engine, batch_vars, frames, http_vars>>

NextExtract == ExtractNumber

SpecExtract == InitExtract /\ [][NextExtract]_vars

\* the magnitude tokens
ThousandTokens == {<<"k">>, <<"b", "i", "n">>}
MillionTokens == {<<"m">>, <<"m", "i", "l", "y", "o", "n">>}

\* the text up to its first space
RECURSIVE FirstWord(_)
FirstWord(s) == IF s = <<>> \/ IsSpace(Head(s)) THEN <<>> ELSE <<Head(s)>> \o FirstWord(Tail(s))

\* the word that follows the first number of the text
WordAfterNumber(s) ==
    LET p == FirstDigitPos(s)
        run == DigitRun(s, p)
        q == p + Len(run)
        frac == IF q <= Len(s) /\ s[q] = "." THEN DigitRun(s, q + 1) ELSE <<>>
        end == IF frac = <<>> THEN q ELSE q + 1 + Len(frac)
    IN  FirstWord(strip(SubSeq(s, end, Len(s))))

\* the number documented for a text: the number times the magnitude of the token
\* that follows it, else the first digit run, 0 without a digit
DocumentedNumber(s) ==
    LET t == lower(strip(s))
    IN  IF ~HasDigit(t) THEN 0
        ELSE IF WordAfterNumber(t) \in ThousandTokens
        THEN first_decimal(t).whole * 1000 + first_decimal(t).frac
        ELSE IF WordAfterNumber(t) \in MillionTokens
        THEN first_decimal(t).whole * 1000000 + first_decimal(t).frac * 1000
        ELSE FirstNumber(t)

\* C28: the extracted number is an integer >= 0; for a text it is the number
\* times 1,000 where a thousand token follows the number, times 1,000,000 where
\* a million token follows it, the first contiguous digit run where neither
\* does, and 0 for a text without a digit or an empty one
C28_MagnitudeTokensThenDigits ==
    Returned =>
        /\ result.employees \in Nat
        /\ company_data[EmployeesKey(rev)].t = "str"
              => result.employees = DocumentedNumber(company_data[EmployeesKey(rev)].s)

-----------------------------------------------------------------------------
(* Claim on the negative signals of _calculate_llm_adjustment_enhanced,    *)
(* under SpecAdjust.                                                       *)

\* the total the selection branches of the heuristic test
RawTotal(data) == SumSeq(main_detected_adjustments(data))

\* the only negative amount detected in the record is the crisis signal of -15
OnlyCrisisIsNegative(data) ==
    \A i \in 1..Len(main_detected_adjustments(data)) :
        main_detected_adjustments(data)[i] < 0 => main_detected_adjustments(data)[i] = -15

\* C30: the adjustment _calculate_llm_adjustment_enhanced returns is never
\* below -15: the crisis signal (-15) is the only negative one, so the raw total
\* is never below -25 and the branch for a total under -25 is never taken
C30_NeverBelowCrisis ==
    (Returned /\ rev = "main") =>
        /\ result >= -15 /\ other_result >= -15
        /\ OnlyCrisisIsNegative(company_data) /\ OnlyCrisisIsNegative(other_data)
        /\ RawTotal(company_data) >= -25 /\ RawTotal(other_data) >= -25

\* a record whose only signal is the crisis one was given -15
C30_Witness ==
    /\ Returned /\ rev = "main"
    /\ main_detected_adjustments(company_data) = <<-15>>
    /\ result = -15
====
